---- MODULE Spec2Model ----
(***************************************************************************)
(* Bulk-create pipeline of flashcard-beast (src/src/pages/BulkCreate.tsx). *)
(* The React component's state, its refs, its effects and its asynchronous *)
(* handlers are modelled as one state machine.  Every handler is split at  *)
(* its awaits: one action per resumption.  The effects that React runs     *)
(* after a commit (auto-run LLM, previewIndex clamp) are folded into the   *)
(* action whose state change triggers them (operator Commit).              *)
(* sessionActive is the useState(false) of BulkCreateSessionProvider       *)
(* (src/src/contexts/BulkCreateSessionContext.tsx); the page is taken to   *)
(* be rendered inside that provider, as its Stop button and its polling    *)
(* effect require.  A directory is taken to be selected throughout.        *)
(* The Study page (src/src/pages/Study.tsx) is modelled the same way, with *)
(* its edit dialog, and the tabs of AppLayout (src/src/App.tsx) as the     *)
(* steps that unmount one page and mount the other.  The backend is the    *)
(* stored cards, their skipped flags and the stored sub-collections.       *)
(***************************************************************************)
EXTENDS Integers, Sequences, FiniteSets, Bags, TLC

VARIABLES
    numFiles,        \* files 1..numFiles exist in the selected directory
    bulkFileFormat,  \* useState bulkFileFormat
    sessionActive,   \* BulkCreateSessionContext.sessionActive
    ocrProcessing,   \* useState ocrProcessing
    ocrQueue,        \* useState ocrQueue : sequence of OcrQueueItem
    previewIndex,    \* useState previewIndex (0-based, as in the code)
    llmEnabled,      \* useState llmEnabled
    autorunEnabled,  \* useState autorunEnabled
    ollamaHost,      \* useState ollamaHost
    llmStartedRef,   \* llmStartedRef.current : set of paths
    knownPathsRef,   \* knownPathsRef.current : set of paths
    scan,            \* the running handleCreateCards call, if any
    polls,           \* the running poll() calls, by slot
    llmCalls,        \* bag of runLlmForPath calls awaiting the LLM adapter
    savePending,     \* bag of handleSave calls awaiting add_card
    sessionsLeft,    \* bound: how many more startSession calls the model follows
    lastEvent,       \* history: the handler step that produced the state, "-" for most
    removedPaths,    \* history: paths saved or skipped in the current session
    pollClaimed,     \* history: paths polls of the current session marked known
    collections,     \* BulkCreate: useState collections (ids), [] until get_collections resolves
    route,           \* location.pathname: the page AppLayout's Routes render
    dbSkipped,       \* backend: ids of the cards stored with skipped = true
    studyCollections,           \* Study: useState collections (ids)
    studySelectedCollectionId,  \* Study: useState selectedCollectionId, 0 for ""
    selectedSubCollectionId,    \* Study: useState selectedSubCollectionId
    cards,           \* Study: useState cards : sequence of StoredCard
    currentIndex,    \* Study: useState currentIndex
    flipped,         \* Study: useState flipped
    skipChecked,     \* Study: useState skipChecked
    loadingCollections,  \* Study: useState loadingCollections
    loadingCards,    \* Study: useState loadingCards
    error,           \* Study: useState error, "" for null
    getCards,        \* Study: collection of the get_cards call not cancelled, 0 if none
    skipCalls,       \* Study: bag of handleNext calls awaiting set_card_skipped
    dbCards,         \* backend: the stored cards of collection 1, in id order
    editingCard,     \* Study: useState editingCard (the card's id), 0 for null
    editSubCollectionId,  \* Study: useState editSubCollectionId
    editQuestion,    \* Study: useState editQuestion
    editAnswer,      \* Study: useState editAnswer
    editSaveAction,  \* Study: useState editSaveAction
    saving,          \* Study: useState saving
    modalError,      \* Study: useState modalError, "" for null
    saveEdit,        \* Study: the handleSaveEdit call awaiting the backend, if any
    editsLeft,       \* bound: how many more handleSaveEdit calls the model follows
    dbSubCollections,      \* backend: the stored sub-collections, in id order
    selectedCollectionId,  \* BulkCreate: useState selectedCollectionId, 0 for ""
    subCollections,        \* BulkCreate: useState subCollections
    bulkSelectedSubCollectionId,  \* BulkCreate: useState selectedSubCollectionId, 0 for ""
    newSubCollectionOpen,  \* BulkCreate: useState newSubCollectionOpen
    newSubCollectionName,  \* BulkCreate: useState newSubCollectionName
    creatingSubCollection, \* BulkCreate: useState creatingSubCollection
    getSubCollections,     \* BulkCreate: collection of the get_sub_collections call not cancelled, 0 if none
    createSub              \* BulkCreate: the handleCreateSubCollection call awaiting the backend, if any

vars == << numFiles, bulkFileFormat, sessionActive, ocrProcessing, ocrQueue,
           previewIndex, llmEnabled, autorunEnabled, ollamaHost, llmStartedRef,
           knownPathsRef, scan, polls, llmCalls, savePending, sessionsLeft,
           lastEvent, removedPaths, pollClaimed, collections, route, dbSkipped,
           studyCollections, studySelectedCollectionId, selectedSubCollectionId, cards,
           currentIndex, flipped, skipChecked, loadingCollections, loadingCards, error,
           getCards, skipCalls, dbCards, editingCard, editSubCollectionId, editQuestion,
           editAnswer, editSaveAction, saving, modalError, saveEdit, editsLeft,
           dbSubCollections, selectedCollectionId, subCollections,
           bulkSelectedSubCollectionId, newSubCollectionOpen, newSubCollectionName,
           creatingSubCollection, getSubCollections, createSub >>

\* The collection and sub-collection selection of the Bulk Create page, and
\* the stored sub-collections.
subVars == << dbSubCollections, selectedCollectionId, subCollections,
              bulkSelectedSubCollectionId, newSubCollectionOpen, newSubCollectionName,
              creatingSubCollection, getSubCollections, createSub >>

\* The edit dialog of the Study page, and the stored cards it writes.
editVars == << dbCards, editingCard, editSubCollectionId, editQuestion, editAnswer,
               editSaveAction, saving, modalError, saveEdit, editsLeft >>

\* The state of the Study page.
studyVars == << studyCollections, studySelectedCollectionId, selectedSubCollectionId, cards,
                currentIndex, flipped, skipChecked, loadingCollections, loadingCards, error,
                getCards, skipCalls >>

\* What the handlers of the queue leave alone.
restVars == << route, collections, dbSkipped, studyVars, editVars, subVars >>

\* The state of the Bulk Create page and of the directory it reads.
bulkVars == << numFiles, bulkFileFormat, sessionActive, ocrProcessing, ocrQueue,
               previewIndex, llmEnabled, autorunEnabled, ollamaHost, llmStartedRef,
               knownPathsRef, scan, polls, llmCalls, savePending, sessionsLeft,
               removedPaths, pollClaimed, collections, subVars >>

----------------------------------------------------------------------------
(* Bounds of the model *)

NumPaths == 3

MaxSessions == 2

MaxPolls == 1

MaxSaves == 1

MaxSessionsLlm == 1

MaxPollsOrder == 2

\* Bounds of the Study model
NumCards == 3

MaxSkipCalls == 2

\* How many handleSaveEdit calls of the Study page the model follows.
MaxEdits == 1

\* How many sub-collections the Bulk Create page creates.
MaxCreates == 1

----------------------------------------------------------------------------
(* Data *)

Paths == 1..NumPaths

Formats == {"png", "jpeg"}

Hosts == {"local", "cloud"}

\* What worker.recognize returns for each file: nothing for the first file,
\* text for the others.
FileText(p) ==
    IF p = 1 THEN "" ELSE IF p = 2 THEN "Paris" ELSE "Berlin"

\* What the user can type into the Raw Text Read box.
EditTexts == {" ", "typed"}

\* String.prototype.trim on the texts of the model.
Trim(t) == IF t \in {"", " "} THEN "" ELSE IF t = " Q2 " THEN "Q2" ELSE t

\* list_files_in_directory(directory, format): the files of that format, in
\* directory order.  Every file of the model is a PNG.
ListFiles(fmt) ==
    IF fmt = "png" THEN [i \in 1..numFiles |-> i] ELSE << >>

Min(S) == CHOOSE x \in S : \A y \in S : x <= y

Range(s) == {s[i] : i \in DOMAIN s}

QueuePaths(q) == {q[i].path : i \in DOMAIN q}

NumRunning(q) == Cardinality({i \in DOMAIN q : q[i].llmStatus = "running"})

\* The value of an optional field that is not set.
Undefined == "<undefined>"

\* { path, text, llmStatus: "idle" }; llmResponse, llmQuestion and llmAnswer
\* are not set.
NewItem(p, t) ==
    [path |-> p, text |-> t, llmStatus |-> "idle", llmResponse |-> Undefined,
     llmQuestion |-> Undefined, llmAnswer |-> Undefined]

\* currentQueueItem
HasCurrent == Len(ocrQueue) > 0 /\ previewIndex >= 0 /\ previewIndex < Len(ocrQueue)

CurrentItem == ocrQueue[previewIndex + 1]

\* Faulty variant of RemoveAt, the filter inverted: prev.filter((_, i) => i === idx).
KeepAt(q, idx) ==
    IF idx + 1 \in DOMAIN q THEN << q[idx + 1] >> ELSE << >>

\* prev.filter((_, i) => i !== idx)
RemoveAt(q, idx) ==
    IF idx + 1 \in DOMAIN q
    THEN [i \in 1..(Len(q) - 1) |-> IF i < idx + 1 THEN q[i] ELSE q[i + 1]]
    ELSE q

\* prev.map(item => item.path === path ? {...item, llmStatus: s} : item)
SetStatusByPath(q, p, s) ==
    [i \in DOMAIN q |-> IF q[i].path = p THEN [q[i] EXCEPT !.llmStatus = s] ELSE q[i]]

----------------------------------------------------------------------------
(* The LLM adapter: generateFlashcard and parseFlashcard *)

\* message.content of generateFlashcard, by the file and the host asked: a
\* flashcard object, the JSON null, prose, an object without answer, an
\* object with a number as question, and the empty content.
LlmReply(p, host) ==
    IF p = 1 THEN (IF host = "local" THEN "{\"question\":\"Q\",\"answer\":\"A\"}"
                   ELSE "null")
    ELSE IF p = 2 THEN (IF host = "local" THEN "Paris is the capital of France."
                        ELSE "{\"question\":\"Q\"}")
    ELSE (IF host = "local" THEN "{\"question\":1,\"answer\":\"A\"}"
          ELSE "")

\* `Error: ${e.message}`
ErrorText == "Error: failed"

JString(v) == [type |-> "string", value |-> v]

\* JSON.parse on the contents of the model; type is what typeof gives,
\* isNull tells null from the objects, props holds an object's properties,
\* and a content that is not JSON throws.
JsonParse(content) ==
    IF content = "{\"question\":\"Q\",\"answer\":\"A\"}"
    THEN [threw |-> FALSE, type |-> "object", isNull |-> FALSE,
          props |-> [question |-> JString("Q"), answer |-> JString("A")]]
    ELSE IF content = "{\"question\":\"Q\"}"
    THEN [threw |-> FALSE, type |-> "object", isNull |-> FALSE,
          props |-> [question |-> JString("Q")]]
    ELSE IF content = "{\"question\":1,\"answer\":\"A\"}"
    THEN [threw |-> FALSE, type |-> "object", isNull |-> FALSE,
          props |-> [question |-> [type |-> "number", value |-> "1"],
                     answer |-> JString("A")]]
    ELSE IF content = "null"
    THEN [threw |-> FALSE, type |-> "object", isNull |-> TRUE, props |-> << >>]
    ELSE [threw |-> TRUE, type |-> "undefined", isNull |-> FALSE, props |-> << >>]

\* EMPTY_FLASHCARD
EmptyFlashcard == [question |-> "", answer |-> ""]

\* parseFlashcard(content)
ParseFlashcard(content) ==
    LET parsed == JsonParse(content)
    IN  IF /\ ~parsed.threw
           /\ ~parsed.isNull
           /\ parsed.type = "object"
           /\ "question" \in DOMAIN parsed.props
           /\ "answer" \in DOMAIN parsed.props
           /\ parsed.props.question.type = "string"
           /\ parsed.props.answer.type = "string"
        THEN [question |-> parsed.props.question.value,
              answer |-> parsed.props.answer.value]
        ELSE EmptyFlashcard

\* prev.map(item => item.path === path
\*     ? {...item, llmStatus: "done", llmResponse: content,
\*        llmQuestion: flashcard.question, llmAnswer: flashcard.answer} : item)
SetDoneByPath(q, p, content) ==
    LET flashcard == ParseFlashcard(content)
    IN  [i \in DOMAIN q |->
            IF q[i].path = p
            THEN [q[i] EXCEPT !.llmStatus = "done", !.llmResponse = content,
                              !.llmQuestion = flashcard.question,
                              !.llmAnswer = flashcard.answer]
            ELSE q[i]]

\* prev.map(item => item.path === path
\*     ? {...item, llmStatus: "error", llmResponse: errorMsg} : item)
SetErrorByPath(q, p, errorMsg) ==
    [i \in DOMAIN q |->
        IF q[i].path = p
        THEN [q[i] EXCEPT !.llmStatus = "error", !.llmResponse = errorMsg]
        ELSE q[i]]

\* pc: "none" when no call is running, else "list", "worker", "ocr", "term".
NoScan == [pc |-> "none", paths |-> << >>, i |-> 0, fmt |-> "png"]

NoPoll == [pc |-> "none", paths |-> << >>, active |-> FALSE, stale |-> FALSE, fmt |-> "png"]

\* The slots for poll() calls that run at the same time.
PollSlots == DOMAIN polls

\* Effect cleanup: active = false for every poll of the effect instance.
\* stop = TRUE also records that the poll was in flight when stopSession ran.
Deactivate(ps, stop) ==
    [k \in DOMAIN ps |->
        IF ps[k].pc = "none" THEN ps[k]
        ELSE [ps[k] EXCEPT !.active = FALSE, !.stale = (ps[k].stale \/ stop)]]

\* Marks every LLM call in flight as belonging to a stopped session.
MarkStale(B) ==
    LET S == {[x EXCEPT !.stale = TRUE] : x \in BagToSet(B)}
    IN  [y \in S |-> CopiesIn(y, B) + CopiesIn([y EXCEPT !.stale = FALSE], B)]

----------------------------------------------------------------------------
(* Routing, and the state of a page that is not mounted *)

\* The routes of AppLayout that the model follows.
Routes == {"/bulk-create", "/study"}

OnBulkCreate == route = "/bulk-create"

OnStudy == route = "/study"

\* get_collections of the backend: the ids of the stored collections.
DbCollections == << 1, 2 >>

\* SUB_COLLECTION_ALL
SubCollectionAll == "__all__"

\* SUB_COLLECTION_NONE
SubCollectionNone == "__none__"

\* sub_collection_id of a card without sub-collection (null).
NoSub == 0

\* The cards stored when the model starts: collection 1 holds the cards
\* 1..NumCards, the odd ones in its sub-collection 1, the even ones in none,
\* every one with question "Q" and answer "A".
SubOf(id) == IF id % 2 = 1 THEN 1 ELSE NoSub

InitialCards ==
    [i \in 1..NumCards |->
        [id |-> i, question |-> "Q", answer |-> "A", sub_collection_id |-> SubOf(i)]]

\* No handleSaveEdit call is awaiting the backend.
NoSaveEdit ==
    [pc |-> "none", id |-> 0, question |-> "", answer |-> "", collectionId |-> 0,
     subCollectionId |-> NoSub]

\* The sub-collections stored when the model starts: sub-collection 1, of
\* collection 1.
InitialSubCollections == << [id |-> 1, name |-> "Verbs", collection_id |-> 1] >>

\* No handleCreateSubCollection call is awaiting the backend.
NoCreateSub == [pc |-> "none", collectionId |-> 0, name |-> ""]

\* The collection and sub-collection state of BulkCreate as mounted, after
\* its mount effects: get_collections is in flight, nothing is selected.
BulkSelectionUnmounted ==
    /\ selectedCollectionId = 0
    /\ subCollections = << >>
    /\ bulkSelectedSubCollectionId = 0
    /\ newSubCollectionOpen = FALSE
    /\ newSubCollectionName = ""
    /\ creatingSubCollection = FALSE
    /\ getSubCollections = 0
    /\ createSub = NoCreateSub

\* get_sub_collections(collectionId) of the backend.
GetSubCollections(db, coll) == SelectSeq(db, LAMBDA sc : sc.collection_id = coll)

\* The same state once get_collections and get_sub_collections have
\* resolved: the first collection and its first sub-collection are selected.
BulkSelectionLoaded ==
    /\ selectedCollectionId = DbCollections[1]
    /\ subCollections = GetSubCollections(InitialSubCollections, DbCollections[1])
    /\ bulkSelectedSubCollectionId = 1
    /\ newSubCollectionOpen = FALSE
    /\ newSubCollectionName = ""
    /\ creatingSubCollection = FALSE
    /\ getSubCollections = 0
    /\ createSub = NoCreateSub

\* The Study component as mounted, after its mount effects: get_collections
\* is in flight, no collection is selected, so no cards are loading.
StudyUnmounted ==
    /\ studyCollections = << >>
    /\ studySelectedCollectionId = 0
    /\ selectedSubCollectionId = SubCollectionAll
    /\ cards = << >>
    /\ currentIndex = 0
    /\ flipped = FALSE
    /\ skipChecked = FALSE
    /\ loadingCollections = TRUE
    /\ loadingCards = FALSE
    /\ error = ""
    /\ getCards = 0
    /\ skipCalls = EmptyBag
    /\ editingCard = 0
    /\ editSubCollectionId = SubCollectionNone
    /\ editQuestion = ""
    /\ editAnswer = ""
    /\ editSaveAction = "overwrite"
    /\ saving = FALSE
    /\ modalError = ""
    /\ saveEdit = NoSaveEdit

----------------------------------------------------------------------------
(* The effects run after a commit *)

\* item.llmStatus === "idle" && item.text.trim() && !llmStartedRef.current.has(item.path)
Eligible(item, started) ==
    item.llmStatus = "idle" /\ Trim(item.text) # "" /\ item.path \notin started

NoStart(q, started) == [q |-> q, started |-> started, launched |-> {}]

\* Local host: only when nothing is running, the first eligible item at or
\* after previewIndex.
LocalScanFrom(q, pi) == (pi + 1)..Len(q)

\* Faulty variant of AutoRunLocal: the anyRunning test is left out.
AutoRunLocalNoWait(q, pi, started) ==
    LET cand == {i \in LocalScanFrom(q, pi) : Eligible(q[i], started)}
    IN  IF cand = {}
        THEN NoStart(q, started)
        ELSE LET p == q[Min(cand)].path
             IN  [q |-> SetStatusByPath(q, p, "running"),
                  started |-> started \cup {p},
                  launched |-> {p}]

AutoRunLocal(q, pi, started) ==
    LET cand == {i \in LocalScanFrom(q, pi) : Eligible(q[i], started)}
    IN  IF NumRunning(q) > 0 \/ cand = {}
        THEN NoStart(q, started)
        ELSE LET p == q[Min(cand)].path
             IN  [q |-> SetStatusByPath(q, p, "running"),
                  started |-> started \cup {p},
                  launched |-> {p}]

\* Faulty variant of TryStart: llmStartedRef.current.add(item.path) is left out.
TryStartNoMark(snap, acc, i) ==
    IF i \in DOMAIN snap /\ Eligible(snap[i], acc.started)
    THEN [q |-> SetStatusByPath(acc.q, snap[i].path, "running"),
          started |-> acc.started,
          launched |-> acc.launched \cup {snap[i].path}]
    ELSE acc

\* tryStart(item): item is read from the rendered queue snap, the update is
\* applied to the latest queue acc.q.
TryStart(snap, acc, i) ==
    IF i \in DOMAIN snap /\ Eligible(snap[i], acc.started)
    THEN [q |-> SetStatusByPath(acc.q, snap[i].path, "running"),
          started |-> acc.started \cup {snap[i].path},
          launched |-> acc.launched \cup {snap[i].path}]
    ELSE acc

\* Cloud host: tryStart(ocrQueue[previewIndex]); tryStart(ocrQueue[previewIndex + 1])
CloudLookAhead == 1

\* Faulty variant of AutoRunCloud: a third tryStart(ocrQueue[previewIndex + 2]).
AutoRunCloudAhead(q, pi, started) ==
    TryStart(q, TryStart(q, TryStart(q, NoStart(q, started), pi + 1), pi + 2), pi + 3)

AutoRunCloud(q, pi, started) ==
    TryStart(q, TryStart(q, NoStart(q, started), pi + 1), pi + 1 + CloudLookAhead)

AutoRun(q, pi, started, en, au, host) ==
    IF ~en \/ ~au THEN NoStart(q, started)
    ELSE IF host = "local" THEN AutoRunLocal(q, pi, started)
    ELSE AutoRunCloud(q, pi, started)

\* Faulty variant of Clamp: the test previewIndex >= ocrQueue.length is left out.
ClampToLast(q, pi) == IF Len(q) > 0 THEN Len(q) - 1 ELSE pi

\* if (ocrQueue.length > 0 && previewIndex >= ocrQueue.length) setPreviewIndex(length - 1)
Clamp(q, pi) == IF Len(q) > 0 /\ pi >= Len(q) THEN Len(q) - 1 ELSE pi

\* Both effects, run until the render is stable.
Effects(q, pi, started, en, au, host) ==
    LET a   == AutoRun(q, pi, started, en, au, host)
        pi2 == Clamp(a.q, pi)
        b   == AutoRun(a.q, pi2, a.started, en, au, host)
    IN  IF pi2 = pi
        THEN [q |-> a.q, pi |-> pi, started |-> a.started, launched |-> a.launched]
        ELSE [q |-> b.q, pi |-> pi2, started |-> b.started,
              launched |-> a.launched \cup b.launched]

\* Commits a new queue / index / started-set / settings and runs the effects;
\* calls is the bag of LLM calls still in flight before the effects run.
Commit(q, pi, started, en, au, host, calls) ==
    LET e == Effects(q, pi, started, en, au, host)
    IN  /\ ocrQueue' = e.q
        /\ previewIndex' = e.pi
        /\ llmStartedRef' = e.started
        /\ llmCalls' = calls (+) SetToBag({[path |-> p, host |-> host, stale |-> FALSE] :
                                              p \in e.launched})

\* A commit that changes the queue only.
CommitQueue(q) ==
    Commit(q, previewIndex, llmStartedRef, llmEnabled, autorunEnabled, ollamaHost, llmCalls)

----------------------------------------------------------------------------
(* Initial state: the component as mounted *)

Init ==
    /\ numFiles = 0
    /\ bulkFileFormat = "png"
    /\ sessionActive = FALSE
    /\ ocrProcessing = FALSE
    /\ ocrQueue = << >>
    /\ previewIndex = 0
    /\ llmEnabled = TRUE
    /\ autorunEnabled = TRUE
    /\ ollamaHost = "local"
    /\ llmStartedRef = {}
    /\ knownPathsRef = {}
    /\ scan = NoScan
    /\ polls = [k \in 1..MaxPolls |-> NoPoll]
    /\ llmCalls = EmptyBag
    /\ savePending = EmptyBag
    /\ sessionsLeft = MaxSessions
    /\ lastEvent = "-"
    /\ removedPaths = {}
    /\ pollClaimed = {}
    /\ collections = << >>
    /\ dbSubCollections = InitialSubCollections
    /\ BulkSelectionUnmounted
    /\ route = "/bulk-create"
    /\ dbSkipped = {}
    /\ dbCards = InitialCards
    /\ editsLeft = MaxEdits
    /\ StudyUnmounted

----------------------------------------------------------------------------
(* Environment and settings *)

\* A new image file appears in the directory.
AddFile ==
    /\ numFiles < NumPaths
    /\ numFiles' = numFiles + 1
    /\ lastEvent' = "-"
    /\ UNCHANGED << restVars, bulkFileFormat, sessionActive, ocrProcessing, ocrQueue, previewIndex,
                    llmEnabled, autorunEnabled, ollamaHost, llmStartedRef, knownPathsRef,
                    scan, polls, llmCalls, savePending, sessionsLeft, removedPaths, pollClaimed >>

\* Bulk File Format select: the polling effect is cleaned up and re-installed.
ChangeFormat ==
    /\ OnBulkCreate
    /\ \E f \in Formats :
        /\ f # bulkFileFormat
        /\ bulkFileFormat' = f
    /\ polls' = Deactivate(polls, FALSE)
    /\ lastEvent' = "-"
    /\ UNCHANGED << restVars, numFiles, sessionActive, ocrProcessing, ocrQueue, previewIndex,
                    llmEnabled, autorunEnabled, ollamaHost, llmStartedRef, knownPathsRef,
                    scan, llmCalls, savePending, sessionsLeft, removedPaths, pollClaimed >>

\* LLM On / LLM Off switch.
ToggleLlm ==
    /\ OnBulkCreate
    /\ llmEnabled' = ~llmEnabled
    /\ Commit(ocrQueue, previewIndex, llmStartedRef, ~llmEnabled, autorunEnabled,
              ollamaHost, llmCalls)
    /\ lastEvent' = "-"
    /\ UNCHANGED << restVars, numFiles, bulkFileFormat, sessionActive, ocrProcessing, autorunEnabled,
                    ollamaHost, knownPathsRef, scan, polls, savePending, sessionsLeft,
                    removedPaths, pollClaimed >>

\* Auto On / Auto Off switch (disabled while LLM is off).
ToggleAutorun ==
    /\ OnBulkCreate
    /\ llmEnabled
    /\ autorunEnabled' = ~autorunEnabled
    /\ Commit(ocrQueue, previewIndex, llmStartedRef, llmEnabled, ~autorunEnabled,
              ollamaHost, llmCalls)
    /\ lastEvent' = "-"
    /\ UNCHANGED << restVars, numFiles, bulkFileFormat, sessionActive, ocrProcessing, llmEnabled,
                    ollamaHost, knownPathsRef, scan, polls, savePending, sessionsLeft,
                    removedPaths, pollClaimed >>

\* Ollama host select (disabled while LLM is off).
SetHost ==
    /\ OnBulkCreate
    /\ llmEnabled
    /\ \E h \in Hosts :
        /\ h # ollamaHost
        /\ ollamaHost' = h
        /\ Commit(ocrQueue, previewIndex, llmStartedRef, llmEnabled, autorunEnabled,
                  h, llmCalls)
    /\ lastEvent' = "-"
    /\ UNCHANGED << restVars, numFiles, bulkFileFormat, sessionActive, ocrProcessing, llmEnabled,
                    autorunEnabled, knownPathsRef, scan, polls, savePending, sessionsLeft,
                    removedPaths, pollClaimed >>

----------------------------------------------------------------------------
(* startSession: handleCreateCards *)

StartSession ==
    /\ OnBulkCreate
    /\ ~sessionActive
    /\ ~ocrProcessing
    /\ sessionsLeft > 0
    /\ sessionsLeft' = sessionsLeft - 1
    /\ sessionActive' = TRUE
    /\ ocrProcessing' = TRUE
    /\ knownPathsRef' = {}
    /\ scan' = [pc |-> "list", paths |-> << >>, i |-> 0, fmt |-> bulkFileFormat]
    /\ CommitQueue(<< >>)
    /\ removedPaths' = {}
    /\ pollClaimed' = {}
    /\ lastEvent' = "-"
    /\ UNCHANGED << restVars, numFiles, bulkFileFormat, llmEnabled, autorunEnabled, ollamaHost,
                    polls, savePending >>

\* list_files_in_directory resolves.
ScanListed ==
    /\ scan.pc = "list"
    /\ knownPathsRef' = knownPathsRef \cup Range(ListFiles(scan.fmt))
    /\ scan' = [scan EXCEPT !.pc = "worker", !.paths = ListFiles(scan.fmt)]
    /\ lastEvent' = "-"
    /\ UNCHANGED << restVars, numFiles, bulkFileFormat, sessionActive, ocrProcessing, ocrQueue,
                    previewIndex, llmEnabled, autorunEnabled, ollamaHost, llmStartedRef,
                    polls, llmCalls, savePending, sessionsLeft, removedPaths, pollClaimed >>

\* list_files_in_directory or createWorker rejects: only the outer finally runs.
ScanAbort ==
    /\ scan.pc \in {"list", "worker"}
    /\ ocrProcessing' = FALSE
    /\ scan' = NoScan
    /\ lastEvent' = "-"
    /\ UNCHANGED << restVars, numFiles, bulkFileFormat, sessionActive, ocrQueue, previewIndex,
                    llmEnabled, autorunEnabled, ollamaHost, llmStartedRef, knownPathsRef,
                    polls, llmCalls, savePending, sessionsLeft, removedPaths, pollClaimed >>

\* createWorker resolves; the loop starts on the first path, if there is one.
ScanWorker ==
    /\ scan.pc = "worker"
    /\ scan' = [scan EXCEPT !.pc = IF Len(scan.paths) = 0 THEN "term" ELSE "ocr"]
    /\ lastEvent' = "-"
    /\ UNCHANGED << restVars, numFiles, bulkFileFormat, sessionActive, ocrProcessing, ocrQueue,
                    previewIndex, llmEnabled, autorunEnabled, ollamaHost, llmStartedRef,
                    knownPathsRef, polls, llmCalls, savePending, sessionsLeft, removedPaths,
                    pollClaimed >>

\* Faulty variant of ScanItem: the catch block stores the error as the text.
ScanItemErrorText(p, ok) == NewItem(p, IF ok THEN FileText(p) ELSE "typed")

\* The item the scan appends for path p: the OCR text, or "" when
\* read_file_base64 or recognize threw.
ScanItem(p, ok) == NewItem(p, IF ok THEN FileText(p) ELSE "")

\* read_file_base64 + worker.recognize resolve (ok) or throw (~ok) for the
\* next path; the item is appended.
ScanOcr ==
    /\ scan.pc = "ocr"
    /\ \E ok \in BOOLEAN :
        /\ CommitQueue(Append(ocrQueue, ScanItem(scan.paths[scan.i + 1], ok)))
        /\ lastEvent' = "-"
    /\ scan' = [scan EXCEPT !.i = scan.i + 1,
                            !.pc = IF scan.i + 1 = Len(scan.paths) THEN "term" ELSE "ocr"]
    /\ UNCHANGED << restVars, numFiles, bulkFileFormat, sessionActive, ocrProcessing, llmEnabled,
                    autorunEnabled, ollamaHost, knownPathsRef, polls, savePending,
                    sessionsLeft, removedPaths, pollClaimed >>

\* worker.terminate settles; finally setOcrProcessing(false).
ScanFinish ==
    /\ scan.pc = "term"
    /\ ocrProcessing' = FALSE
    /\ scan' = NoScan
    /\ lastEvent' = "-"
    /\ UNCHANGED << restVars, numFiles, bulkFileFormat, sessionActive, ocrQueue, previewIndex,
                    llmEnabled, autorunEnabled, ollamaHost, llmStartedRef, knownPathsRef,
                    polls, llmCalls, savePending, sessionsLeft, removedPaths, pollClaimed >>

----------------------------------------------------------------------------
(* pollForNewFiles: the directory polling effect *)

\* The interval fires: a new poll() call starts with list_files_in_directory.
PollTick ==
    /\ OnBulkCreate
    /\ sessionActive
    /\ ~ocrProcessing
    /\ \E k \in PollSlots :
        /\ polls[k].pc = "none"
        /\ \A j \in PollSlots : j < k => polls[j].pc # "none"
        /\ polls' = [polls EXCEPT ![k] = [pc |-> "list", paths |-> << >>, active |-> TRUE,
                                          stale |-> FALSE, fmt |-> bulkFileFormat]]
    /\ lastEvent' = "-"
    /\ UNCHANGED << restVars, numFiles, bulkFileFormat, sessionActive, ocrProcessing, ocrQueue,
                    previewIndex, llmEnabled, autorunEnabled, ollamaHost, llmStartedRef,
                    knownPathsRef, scan, llmCalls, savePending, sessionsLeft, removedPaths,
                    pollClaimed >>

\* paths.filter(p => !knownPathsRef.current.has(p))
NewPaths(fmt) == SelectSeq(ListFiles(fmt), LAMBDA p : p \notin knownPathsRef)

\* list_files_in_directory resolves for poll k.
PollListed(k) ==
    /\ polls[k].pc = "list"
    /\ IF Len(NewPaths(polls[k].fmt)) = 0 \/ ~polls[k].active
       THEN /\ polls' = [polls EXCEPT ![k] = NoPoll]
            /\ UNCHANGED << knownPathsRef, pollClaimed >>
       ELSE /\ polls' = [polls EXCEPT ![k].pc = "worker", ![k].paths = NewPaths(polls[k].fmt)]
            /\ knownPathsRef' = knownPathsRef \cup Range(NewPaths(polls[k].fmt))
            /\ pollClaimed' = pollClaimed \cup Range(NewPaths(polls[k].fmt))
    /\ lastEvent' = "-"
    /\ UNCHANGED << restVars, numFiles, bulkFileFormat, sessionActive, ocrProcessing, ocrQueue,
                    previewIndex, llmEnabled, autorunEnabled, ollamaHost, llmStartedRef,
                    scan, llmCalls, savePending, sessionsLeft, removedPaths >>

\* list_files_in_directory or createWorker rejects for poll k: the outer
\* catch ignores the error and the poll ends.
PollFail(k) ==
    /\ polls[k].pc \in {"list", "worker"}
    /\ polls' = [polls EXCEPT ![k] = NoPoll]
    /\ lastEvent' = "-"
    /\ UNCHANGED << restVars, numFiles, bulkFileFormat, sessionActive, ocrProcessing, ocrQueue,
                    previewIndex, llmEnabled, autorunEnabled, ollamaHost, llmStartedRef,
                    knownPathsRef, scan, llmCalls, savePending, sessionsLeft, removedPaths,
                    pollClaimed >>

\* createWorker resolves for poll k; the loop head checks active.
PollWorker(k) ==
    /\ polls[k].pc = "worker"
    /\ polls' = [polls EXCEPT ![k] = IF polls[k].active THEN [polls[k] EXCEPT !.pc = "ocr"]
                                      ELSE NoPoll]
    /\ lastEvent' = "-"
    /\ UNCHANGED << restVars, numFiles, bulkFileFormat, sessionActive, ocrProcessing, ocrQueue,
                    previewIndex, llmEnabled, autorunEnabled, ollamaHost, llmStartedRef,
                    knownPathsRef, scan, llmCalls, savePending, sessionsLeft, removedPaths,
                    pollClaimed >>

\* The queue after poll k's OCR of its next path settled.
PollAppend(k, ok) ==
    Append(ocrQueue, NewItem(Head(polls[k].paths),
                             IF ok THEN FileText(Head(polls[k].paths)) ELSE ""))

\* read_file_base64 + worker.recognize settle for poll k's next path: the
\* item is appended, then the loop head checks active.
PollOcr(k) ==
    /\ polls[k].pc = "ocr"
    /\ \E ok \in BOOLEAN :
        /\ CommitQueue(PollAppend(k, ok))
        /\ lastEvent' = "-"
    /\ polls' = [polls EXCEPT ![k] =
                    IF Len(polls[k].paths) = 1 \/ ~polls[k].active THEN NoPoll
                    ELSE [polls[k] EXCEPT !.paths = Tail(polls[k].paths)]]
    /\ UNCHANGED << restVars, numFiles, bulkFileFormat, sessionActive, ocrProcessing, llmEnabled,
                    autorunEnabled, ollamaHost, knownPathsRef, scan, savePending,
                    sessionsLeft, removedPaths, pollClaimed >>

----------------------------------------------------------------------------
(* stopSession: the Stop Creating Cards button *)

\* Faulty variant of StopSession: llmStartedRef.current.clear() is left out.
StopSessionKeepsStarted ==
    /\ OnBulkCreate
    /\ sessionActive
    /\ ~ocrProcessing
    /\ sessionActive' = FALSE
    /\ Commit(<< >>, 0, llmStartedRef, llmEnabled, autorunEnabled, ollamaHost,
              MarkStale(llmCalls))
    /\ knownPathsRef' = {}
    /\ polls' = Deactivate(polls, TRUE)
    /\ removedPaths' = {}
    /\ pollClaimed' = {}
    /\ lastEvent' = "StopSession"
    /\ UNCHANGED << restVars, numFiles, bulkFileFormat, ocrProcessing, llmEnabled, autorunEnabled,
                    ollamaHost, scan, savePending, sessionsLeft >>

StopSession ==
    /\ OnBulkCreate
    /\ sessionActive
    /\ ~ocrProcessing
    /\ sessionActive' = FALSE
    /\ Commit(<< >>, 0, {}, llmEnabled, autorunEnabled, ollamaHost, MarkStale(llmCalls))
    /\ knownPathsRef' = {}
    /\ polls' = Deactivate(polls, TRUE)
    /\ removedPaths' = {}
    /\ pollClaimed' = {}
    /\ lastEvent' = "StopSession"
    /\ UNCHANGED << restVars, numFiles, bulkFileFormat, ocrProcessing, llmEnabled, autorunEnabled,
                    ollamaHost, scan, savePending, sessionsLeft >>

----------------------------------------------------------------------------
(* The review surface *)

\* Raw Text Read onChange.
EditText ==
    /\ OnBulkCreate
    /\ HasCurrent
    /\ \E t \in EditTexts :
        /\ t # CurrentItem.text
        /\ CommitQueue([ocrQueue EXCEPT ![previewIndex + 1].text = t])
    /\ lastEvent' = "-"
    /\ UNCHANGED << restVars, numFiles, bulkFileFormat, sessionActive, ocrProcessing, llmEnabled,
                    autorunEnabled, ollamaHost, knownPathsRef, scan, polls, savePending,
                    sessionsLeft, removedPaths, pollClaimed >>

\* Skip button.
Skip ==
    /\ OnBulkCreate
    /\ HasCurrent
    /\ CommitQueue(RemoveAt(ocrQueue, previewIndex))
    /\ removedPaths' = removedPaths \cup {CurrentItem.path}
    /\ lastEvent' = "Skip"
    /\ UNCHANGED << restVars, numFiles, bulkFileFormat, sessionActive, ocrProcessing, llmEnabled,
                    autorunEnabled, ollamaHost, knownPathsRef, scan, polls, savePending,
                    sessionsLeft, pollClaimed >>

\* What the Question and Answer boxes can hold when Save is pressed.
SaveTexts == {"", " ", "typed"}

\* collectionIdNum when no collection id is resolvable.
NoCollection == 0

\* selectedCollectionId ? Number(selectedCollectionId) : collections[0]?.id
\* The effects select collections[0] as soon as the list is loaded.
CollectionIdNum ==
    IF selectedCollectionId # 0 THEN selectedCollectionId
    ELSE IF collections = << >> THEN NoCollection ELSE collections[1]

\* get_collections resolves with the stored collections; a call that rejects
\* leaves collections empty.  The first collection is selected, whereupon
\* the sub-collections effect clears the sub-collections and asks for those
\* of that collection.
CollectionsLoaded ==
    /\ OnBulkCreate
    /\ collections = << >>
    /\ collections' = DbCollections
    /\ selectedCollectionId' = DbCollections[1]
    /\ subCollections' = << >>
    /\ bulkSelectedSubCollectionId' = 0
    /\ getSubCollections' = DbCollections[1]
    /\ lastEvent' = "-"
    /\ UNCHANGED << dbSubCollections, newSubCollectionOpen, newSubCollectionName,
                    creatingSubCollection, createSub >>
    /\ UNCHANGED << route, dbSkipped, studyVars, editVars, numFiles, bulkFileFormat, sessionActive,
                    ocrProcessing, ocrQueue, previewIndex, llmEnabled, autorunEnabled,
                    ollamaHost, llmStartedRef, knownPathsRef, scan, polls, llmCalls,
                    savePending, sessionsLeft, removedPaths, pollClaimed >>

\* Faulty variant of SaveValid: the texts are tested without trim().
SaveValidNoTrim(q, a, c) ==
    c # NoCollection /\ q # "" /\ a # ""

\* handleSave goes on to add_card: none of its early returns is taken.
SaveValid(q, a, c) ==
    c # NoCollection /\ Trim(q) # "" /\ Trim(a) # ""

\* Save button: handleSave up to await invoke("add_card").  The call keeps
\* previewIndex of the render it was made in; path records the item that
\* was under review then.
SaveStart ==
    /\ OnBulkCreate
    /\ HasCurrent
    /\ BagCardinality(savePending) < MaxSaves
    /\ \E q \in SaveTexts, a \in SaveTexts :
        /\ SaveValid(q, a, CollectionIdNum)
        /\ savePending' = savePending (+) SetToBag({[index |-> previewIndex,
                                                     path |-> CurrentItem.path,
                                                     question |-> Trim(q),
                                                     answer |-> Trim(a),
                                                     collectionId |-> CollectionIdNum,
                                                     subCollectionId |->
                                                         bulkSelectedSubCollectionId]})
    /\ lastEvent' = "-"
    /\ UNCHANGED << restVars, numFiles, bulkFileFormat, sessionActive, ocrProcessing, ocrQueue,
                    previewIndex, llmEnabled, autorunEnabled, ollamaHost, llmStartedRef,
                    knownPathsRef, scan, polls, llmCalls, sessionsLeft, removedPaths,
                    pollClaimed >>

\* handleSave returns early: no collection id, or a blank question or answer.
\* (The Save button is disabled while the question or the answer is blank;
\* handleSave tests them again.)
SaveReject ==
    /\ OnBulkCreate
    /\ HasCurrent
    /\ \E q \in SaveTexts, a \in SaveTexts : ~SaveValid(q, a, CollectionIdNum)
    /\ lastEvent' = "SaveReject"
    /\ UNCHANGED << restVars, numFiles, bulkFileFormat, sessionActive, ocrProcessing, ocrQueue,
                    previewIndex, llmEnabled, autorunEnabled, ollamaHost, llmStartedRef,
                    knownPathsRef, scan, polls, llmCalls, savePending, sessionsLeft,
                    removedPaths, pollClaimed >>

\* add_card resolved: setOcrQueue(prev => prev.filter((_, i) => i !== previewIndex)).
SaveOk ==
    /\ \E s \in BagToSet(savePending) :
        /\ savePending' = savePending (-) SetToBag({s})
        /\ CommitQueue(RemoveAt(ocrQueue, s.index))
        /\ removedPaths' = IF s.index + 1 \in DOMAIN ocrQueue
                           THEN removedPaths \cup {ocrQueue[s.index + 1].path}
                           ELSE removedPaths
    /\ lastEvent' = "SaveOk"
    /\ UNCHANGED << restVars, numFiles, bulkFileFormat, sessionActive, ocrProcessing, llmEnabled,
                    autorunEnabled, ollamaHost, knownPathsRef, scan, polls, sessionsLeft,
                    pollClaimed >>

\* Faulty variant of SaveFail: the item is removed although add_card rejected.
SaveFailRemoves ==
    /\ \E s \in BagToSet(savePending) :
        /\ savePending' = savePending (-) SetToBag({s})
        /\ CommitQueue(RemoveAt(ocrQueue, s.index))
    /\ lastEvent' = "SaveFail"
    /\ UNCHANGED << restVars, numFiles, bulkFileFormat, sessionActive, ocrProcessing, llmEnabled,
                    autorunEnabled, ollamaHost, knownPathsRef, scan, polls, sessionsLeft,
                    removedPaths, pollClaimed >>

\* add_card rejected: the catch block does nothing.
SaveFail ==
    /\ \E s \in BagToSet(savePending) :
        savePending' = savePending (-) SetToBag({s})
    /\ lastEvent' = "SaveFail"
    /\ UNCHANGED << restVars, numFiles, bulkFileFormat, sessionActive, ocrProcessing, ocrQueue,
                    previewIndex, llmEnabled, autorunEnabled, ollamaHost, llmStartedRef,
                    knownPathsRef, scan, polls, llmCalls, sessionsLeft, removedPaths,
                    pollClaimed >>

\* Run LLM button: handleRunLlm.
RunLlm ==
    /\ OnBulkCreate
    /\ llmEnabled
    /\ HasCurrent
    /\ Trim(CurrentItem.text) # ""
    /\ CurrentItem.llmStatus # "running"
    /\ Commit([ocrQueue EXCEPT ![previewIndex + 1] =
                    [@ EXCEPT !.llmStatus = "idle", !.llmResponse = Undefined,
                              !.llmQuestion = Undefined, !.llmAnswer = Undefined]],
              previewIndex,
              llmStartedRef \ {CurrentItem.path}, llmEnabled, autorunEnabled, ollamaHost,
              llmCalls)
    /\ lastEvent' = "RunLlm"
    /\ UNCHANGED << restVars, numFiles, bulkFileFormat, sessionActive, ocrProcessing, llmEnabled,
                    autorunEnabled, ollamaHost, knownPathsRef, scan, polls, savePending,
                    sessionsLeft, removedPaths, pollClaimed >>

\* runLlmForPath after its awaits: generateFlashcard returned (ok) or
\* get_ollama_api_key / generateFlashcard threw (~ok).
LlmSettle(c, ok) ==
    /\ Commit(IF ok THEN SetDoneByPath(ocrQueue, c.path, LlmReply(c.path, c.host))
                    ELSE SetErrorByPath(ocrQueue, c.path, ErrorText),
              previewIndex, llmStartedRef, llmEnabled, autorunEnabled, ollamaHost,
              llmCalls (-) SetToBag({c}))
    /\ lastEvent' = "-"
    /\ UNCHANGED << restVars, numFiles, bulkFileFormat, sessionActive, ocrProcessing, llmEnabled,
                    autorunEnabled, ollamaHost, knownPathsRef, scan, polls, savePending,
                    sessionsLeft, removedPaths, pollClaimed >>

LlmResolve ==
    \E c \in BagToSet(llmCalls) : \E ok \in BOOLEAN : LlmSettle(c, ok)

----------------------------------------------------------------------------
(* Collection and sub-collection selection of the Bulk Create page *)

\* What the user can type as the name of a new sub-collection.
NewSubCollectionNames == {" ", "Nouns"}

\* The place of a name in the order of localeCompare.
NameRank(name) == IF name = "Nouns" THEN 1 ELSE IF name = "Verbs" THEN 2 ELSE 0

\* The sorted array with x put after the entries that do not come after it.
InsertByName(sorted, x) ==
    LET k == Cardinality({i \in DOMAIN sorted :
                            NameRank(sorted[i].name) <= NameRank(x.name)})
    IN  SubSeq(sorted, 1, k) \o << x >> \o SubSeq(sorted, k + 1, Len(sorted))

\* array.sort((a, b) => a.name.localeCompare(b.name))
RECURSIVE SortByName(_)
SortByName(array) ==
    IF Len(array) <= 1 THEN array
    ELSE InsertByName(SortByName(SubSeq(array, 1, Len(array) - 1)), array[Len(array)])

\* The backend's create_sub_collection: a new sub-collection of the
\* collection asked for, with the next id.
CreatedSub(db, call) ==
    [id |-> Len(db) + 1, name |-> call.name, collection_id |-> call.collectionId]

DbCreate(db, call) ==
    IF call.pc = "create_sub_collection" THEN Append(db, CreatedSub(db, call)) ELSE db

\* Collection select; the sub-collections effect cancels its call in flight,
\* clears the sub-collections and asks for those of the new collection.
SelectBulkCollection(c) ==
    /\ OnBulkCreate
    /\ ~newSubCollectionOpen
    /\ c \in Range(collections)
    /\ c # selectedCollectionId
    /\ selectedCollectionId' = c
    /\ subCollections' = << >>
    /\ bulkSelectedSubCollectionId' = 0
    /\ getSubCollections' = c
    /\ lastEvent' = "-"
    /\ UNCHANGED << route, collections, dbSkipped, studyVars, editVars, dbSubCollections,
                    newSubCollectionOpen, newSubCollectionName, creatingSubCollection,
                    createSub >>
    /\ UNCHANGED << numFiles, bulkFileFormat, sessionActive, ocrProcessing, ocrQueue,
                    previewIndex, llmEnabled, autorunEnabled, ollamaHost, llmStartedRef,
                    knownPathsRef, scan, polls, llmCalls, savePending, sessionsLeft,
                    removedPaths, pollClaimed >>

\* get_sub_collections resolved for the call that was not cancelled: the
\* first sub-collection is selected, or none.
SubCollectionsLoaded ==
    /\ OnBulkCreate
    /\ getSubCollections # 0
    /\ LET data == GetSubCollections(dbSubCollections, getSubCollections)
       IN  /\ subCollections' = data
           /\ bulkSelectedSubCollectionId' = IF data # << >> THEN data[1].id ELSE 0
    /\ getSubCollections' = 0
    /\ lastEvent' = "-"
    /\ UNCHANGED << route, collections, dbSkipped, studyVars, editVars, dbSubCollections,
                    selectedCollectionId, newSubCollectionOpen, newSubCollectionName,
                    creatingSubCollection, createSub >>
    /\ UNCHANGED << numFiles, bulkFileFormat, sessionActive, ocrProcessing, ocrQueue,
                    previewIndex, llmEnabled, autorunEnabled, ollamaHost, llmStartedRef,
                    knownPathsRef, scan, polls, llmCalls, savePending, sessionsLeft,
                    removedPaths, pollClaimed >>

\* get_sub_collections rejected for the call that was not cancelled.
SubCollectionsFail ==
    /\ OnBulkCreate
    /\ getSubCollections # 0
    /\ subCollections' = << >>
    /\ bulkSelectedSubCollectionId' = 0
    /\ getSubCollections' = 0
    /\ lastEvent' = "-"
    /\ UNCHANGED << route, collections, dbSkipped, studyVars, editVars, dbSubCollections,
                    selectedCollectionId, newSubCollectionOpen, newSubCollectionName,
                    creatingSubCollection, createSub >>
    /\ UNCHANGED << numFiles, bulkFileFormat, sessionActive, ocrProcessing, ocrQueue,
                    previewIndex, llmEnabled, autorunEnabled, ollamaHost, llmStartedRef,
                    knownPathsRef, scan, polls, llmCalls, savePending, sessionsLeft,
                    removedPaths, pollClaimed >>

\* Sub Collection select: enabled with an item under review, a selected
\* collection and a sub-collection to choose.
SelectBulkSubCollection(id) ==
    /\ OnBulkCreate
    /\ ~newSubCollectionOpen
    /\ HasCurrent
    /\ selectedCollectionId # 0
    /\ \E k \in DOMAIN subCollections : subCollections[k].id = id
    /\ id # bulkSelectedSubCollectionId
    /\ bulkSelectedSubCollectionId' = id
    /\ lastEvent' = "-"
    /\ UNCHANGED << route, collections, dbSkipped, studyVars, editVars, dbSubCollections,
                    selectedCollectionId, subCollections, newSubCollectionOpen,
                    newSubCollectionName, creatingSubCollection, getSubCollections,
                    createSub >>
    /\ UNCHANGED << numFiles, bulkFileFormat, sessionActive, ocrProcessing, ocrQueue,
                    previewIndex, llmEnabled, autorunEnabled, ollamaHost, llmStartedRef,
                    knownPathsRef, scan, polls, llmCalls, savePending, sessionsLeft,
                    removedPaths, pollClaimed >>

\* The "+" button next to the Sub Collection select opens the dialog.
OpenNewSubCollection ==
    /\ OnBulkCreate
    /\ ~newSubCollectionOpen
    /\ HasCurrent
    /\ selectedCollectionId # 0
    /\ newSubCollectionOpen' = TRUE
    /\ lastEvent' = "-"
    /\ UNCHANGED << route, collections, dbSkipped, studyVars, editVars, dbSubCollections,
                    selectedCollectionId, subCollections, bulkSelectedSubCollectionId,
                    newSubCollectionName, creatingSubCollection, getSubCollections,
                    createSub >>
    /\ UNCHANGED << numFiles, bulkFileFormat, sessionActive, ocrProcessing, ocrQueue,
                    previewIndex, llmEnabled, autorunEnabled, ollamaHost, llmStartedRef,
                    knownPathsRef, scan, polls, llmCalls, savePending, sessionsLeft,
                    removedPaths, pollClaimed >>

\* Cancel, Escape or a click outside the dialog, also while a creation is in
\* flight.
CloseNewSubCollection ==
    /\ OnBulkCreate
    /\ newSubCollectionOpen
    /\ newSubCollectionOpen' = FALSE
    /\ lastEvent' = "-"
    /\ UNCHANGED << route, collections, dbSkipped, studyVars, editVars, dbSubCollections,
                    selectedCollectionId, subCollections, bulkSelectedSubCollectionId,
                    newSubCollectionName, creatingSubCollection, getSubCollections,
                    createSub >>
    /\ UNCHANGED << numFiles, bulkFileFormat, sessionActive, ocrProcessing, ocrQueue,
                    previewIndex, llmEnabled, autorunEnabled, ollamaHost, llmStartedRef,
                    knownPathsRef, scan, polls, llmCalls, savePending, sessionsLeft,
                    removedPaths, pollClaimed >>

\* The Name box of the dialog.
SetNewSubCollectionName(t) ==
    /\ OnBulkCreate
    /\ newSubCollectionOpen
    /\ t # newSubCollectionName
    /\ newSubCollectionName' = t
    /\ lastEvent' = "-"
    /\ UNCHANGED << route, collections, dbSkipped, studyVars, editVars, dbSubCollections,
                    selectedCollectionId, subCollections, bulkSelectedSubCollectionId,
                    newSubCollectionOpen, creatingSubCollection, getSubCollections,
                    createSub >>
    /\ UNCHANGED << numFiles, bulkFileFormat, sessionActive, ocrProcessing, ocrQueue,
                    previewIndex, llmEnabled, autorunEnabled, ollamaHost, llmStartedRef,
                    knownPathsRef, scan, polls, llmCalls, savePending, sessionsLeft,
                    removedPaths, pollClaimed >>

\* Create button or Enter in the Name box: handleCreateSubCollection up to
\* await invoke("create_sub_collection").
HandleCreateSubCollection ==
    /\ OnBulkCreate
    /\ newSubCollectionOpen
    /\ createSub.pc = "none"
    /\ Len(dbSubCollections) < Len(InitialSubCollections) + MaxCreates
    /\ Trim(newSubCollectionName) # ""
    /\ CollectionIdNum # NoCollection
    /\ creatingSubCollection' = TRUE
    /\ createSub' = [pc |-> "create_sub_collection", collectionId |-> CollectionIdNum,
                     name |-> Trim(newSubCollectionName)]
    /\ lastEvent' = "-"
    /\ UNCHANGED << route, collections, dbSkipped, studyVars, editVars, dbSubCollections,
                    selectedCollectionId, subCollections, bulkSelectedSubCollectionId,
                    newSubCollectionOpen, newSubCollectionName, getSubCollections >>
    /\ UNCHANGED << numFiles, bulkFileFormat, sessionActive, ocrProcessing, ocrQueue,
                    previewIndex, llmEnabled, autorunEnabled, ollamaHost, llmStartedRef,
                    knownPathsRef, scan, polls, llmCalls, savePending, sessionsLeft,
                    removedPaths, pollClaimed >>

\* create_sub_collection resolved: the new sub-collection is put into
\* subCollections, which are sorted by name, and is selected; the dialog is
\* closed.
CreateSubOk ==
    /\ OnBulkCreate
    /\ createSub.pc = "create_sub_collection"
    /\ dbSubCollections' = DbCreate(dbSubCollections, createSub)
    /\ subCollections' =
           SortByName(Append(subCollections, CreatedSub(dbSubCollections, createSub)))
    /\ bulkSelectedSubCollectionId' = CreatedSub(dbSubCollections, createSub).id
    /\ newSubCollectionName' = ""
    /\ newSubCollectionOpen' = FALSE
    /\ creatingSubCollection' = FALSE
    /\ createSub' = NoCreateSub
    /\ lastEvent' = "-"
    /\ UNCHANGED << route, collections, dbSkipped, studyVars, editVars,
                    selectedCollectionId, getSubCollections >>
    /\ UNCHANGED << numFiles, bulkFileFormat, sessionActive, ocrProcessing, ocrQueue,
                    previewIndex, llmEnabled, autorunEnabled, ollamaHost, llmStartedRef,
                    knownPathsRef, scan, polls, llmCalls, savePending, sessionsLeft,
                    removedPaths, pollClaimed >>

\* create_sub_collection rejected: the finally block, there is no catch.
CreateSubFail ==
    /\ OnBulkCreate
    /\ createSub.pc = "create_sub_collection"
    /\ creatingSubCollection' = FALSE
    /\ createSub' = NoCreateSub
    /\ lastEvent' = "-"
    /\ UNCHANGED << route, collections, dbSkipped, studyVars, editVars, dbSubCollections,
                    selectedCollectionId, subCollections, bulkSelectedSubCollectionId,
                    newSubCollectionOpen, newSubCollectionName, getSubCollections >>
    /\ UNCHANGED << numFiles, bulkFileFormat, sessionActive, ocrProcessing, ocrQueue,
                    previewIndex, llmEnabled, autorunEnabled, ollamaHost, llmStartedRef,
                    knownPathsRef, scan, polls, llmCalls, savePending, sessionsLeft,
                    removedPaths, pollClaimed >>

\* The steps of the collection and sub-collection selection.
SubSteps ==
    \/ \E c \in Range(DbCollections) : SelectBulkCollection(c)
    \/ SubCollectionsLoaded
    \/ SubCollectionsFail
    \/ \E id \in 1..(Len(InitialSubCollections) + MaxCreates) : SelectBulkSubCollection(id)
    \/ OpenNewSubCollection
    \/ CloseNewSubCollection
    \/ \E t \in NewSubCollectionNames : SetNewSubCollectionName(t)
    \/ HandleCreateSubCollection
    \/ CreateSubOk
    \/ CreateSubFail

----------------------------------------------------------------------------
(* The Study page (src/src/pages/Study.tsx) *)

\* get_cards(collectionId): the stored cards, in id order.  Collection 2 is
\* empty.
DbCards(coll) ==
    IF coll = 1
    THEN [i \in DOMAIN dbCards |->
            [id |-> dbCards[i].id, question |-> dbCards[i].question,
             answer |-> dbCards[i].answer,
             sub_collection_id |-> dbCards[i].sub_collection_id,
             skipped |-> (dbCards[i].id \in dbSkipped)]]
    ELSE << >>

\* The values of the Sub Collection select.
SubChoices == {SubCollectionAll, "1"}

\* Number(selectedSubCollectionId); NaN, which equals no id, is -1.
Number(str) == IF str = "1" THEN 1 ELSE -1

Max(S) == CHOOSE x \in S : \A y \in S : x >= y

\* Faulty variant of FilteredCardsOf: the skipped cards are filtered out too.
FilteredUnskippedOf(cs, sub) ==
    IF sub = SubCollectionAll
    THEN SelectSeq(cs, LAMBDA c : ~c.skipped)
    ELSE SelectSeq(cs, LAMBDA c : /\ c.sub_collection_id # NoSub
                                  /\ c.sub_collection_id = Number(sub)
                                  /\ ~c.skipped)

\* filteredCards
FilteredCardsOf(cs, sub) ==
    IF sub = SubCollectionAll
    THEN cs
    ELSE SelectSeq(cs, LAMBDA c : /\ c.sub_collection_id # NoSub
                                  /\ c.sub_collection_id = Number(sub))

\* sessionCards
SessionCardsOf(cs, sub) ==
    SelectSeq(FilteredCardsOf(cs, sub), LAMBDA c : ~c.skipped)

FilteredCards == FilteredCardsOf(cards, selectedSubCollectionId)

SessionCards == SessionCardsOf(cards, selectedSubCollectionId)

\* sessionCards[Math.min(currentIndex, sessionCards.length - 1)]
CurrentCard == SessionCards[Min({currentIndex, Len(SessionCards) - 1}) + 1]

\* The number shown as "(k skipped)" next to the card counter.
SkippedCount == Len(FilteredCards) - Len(SessionCards)

\* Which of its views the component renders.
View ==
    IF loadingCollections THEN "loadingCollections"
    ELSE IF error # "" THEN "error"
    ELSE IF studyCollections = << >> THEN "noCollections"
    ELSE IF loadingCards THEN "loadingCards"
    ELSE IF Len(FilteredCards) = 0 THEN "noCards"
    ELSE IF Len(SessionCards) = 0 THEN "allSkipped"
    ELSE "study"

\* The views that render the Collection and Sub Collection selects.
SelectsRendered == View \in {"noCards", "allSkipped", "study"}

\* <Dialog open={!!editingCard}>: the edit dialog is open and covers the page.
EditOpen == editingCard # 0

\* The keydown listener is installed and does not return at once
\* (if (editingCard) return); the buttons of the card are not covered.
KeysActive == Len(SessionCards) > 0 /\ ~EditOpen

\* get_collections resolves: the first collection is selected, whereupon the
\* get_cards effect starts loading its cards.
StudyCollectionsLoaded ==
    /\ OnStudy
    /\ loadingCollections
    /\ loadingCollections' = FALSE
    /\ studyCollections' = DbCollections
    /\ studySelectedCollectionId' = DbCollections[1]
    /\ selectedSubCollectionId' = SubCollectionAll
    /\ loadingCards' = TRUE
    /\ error' = ""
    /\ getCards' = DbCollections[1]
    /\ lastEvent' = "-"
    /\ UNCHANGED << route, bulkVars, editVars, dbSkipped, cards, currentIndex, flipped, skipChecked,
                    skipCalls >>

\* get_collections rejects.
StudyCollectionsFail ==
    /\ OnStudy
    /\ loadingCollections
    /\ loadingCollections' = FALSE
    /\ error' = "failed"
    /\ lastEvent' = "-"
    /\ UNCHANGED << route, bulkVars, editVars, dbSkipped, studyCollections, studySelectedCollectionId,
                    selectedSubCollectionId, cards, currentIndex, flipped, skipChecked,
                    loadingCards, getCards, skipCalls >>

\* get_cards resolves for the call that was not cancelled.
GetCardsOk ==
    /\ OnStudy
    /\ getCards # 0
    /\ cards' = DbCards(getCards)
    /\ currentIndex' = 0
    /\ flipped' = FALSE
    /\ skipChecked' = FALSE
    /\ loadingCards' = FALSE
    /\ getCards' = 0
    /\ lastEvent' = "-"
    /\ UNCHANGED << route, bulkVars, editVars, dbSkipped, studyCollections, studySelectedCollectionId,
                    selectedSubCollectionId, loadingCollections, error, skipCalls >>

\* get_cards rejects for the call that was not cancelled.
GetCardsFail ==
    /\ OnStudy
    /\ getCards # 0
    /\ error' = "failed"
    /\ loadingCards' = FALSE
    /\ getCards' = 0
    /\ lastEvent' = "GetCardsFail"
    /\ UNCHANGED << route, bulkVars, editVars, dbSkipped, studyCollections, studySelectedCollectionId,
                    selectedSubCollectionId, cards, currentIndex, flipped, skipChecked,
                    loadingCollections, skipCalls >>

\* Collection select: the effects reset the sub-collection, cancel the
\* get_cards call in flight, clear the error and load the cards.
SelectCollection(c) ==
    /\ OnStudy
    /\ SelectsRendered
    /\ ~EditOpen
    /\ c \in Range(studyCollections)
    /\ c # studySelectedCollectionId
    /\ studySelectedCollectionId' = c
    /\ selectedSubCollectionId' = SubCollectionAll
    /\ loadingCards' = TRUE
    /\ error' = ""
    /\ getCards' = c
    /\ lastEvent' = "-"
    /\ UNCHANGED << route, bulkVars, editVars, dbSkipped, studyCollections, cards, currentIndex,
                    flipped, skipChecked, loadingCollections, skipCalls >>

\* Sub Collection select; only collection 1 has a sub-collection to choose.
SelectSubCollection(sub) ==
    /\ OnStudy
    /\ SelectsRendered
    /\ ~EditOpen
    /\ studySelectedCollectionId = 1
    /\ sub \in SubChoices
    /\ sub # selectedSubCollectionId
    /\ selectedSubCollectionId' = sub
    /\ lastEvent' = "-"
    /\ UNCHANGED << route, bulkVars, editVars, dbSkipped, studyCollections, studySelectedCollectionId,
                    cards, currentIndex, flipped, skipChecked, loadingCollections,
                    loadingCards, error, getCards, skipCalls >>

\* Click on the card, ArrowUp or ArrowDown.
Flip ==
    /\ OnStudy
    /\ KeysActive
    /\ flipped' = ~flipped
    /\ lastEvent' = "-"
    /\ UNCHANGED << route, bulkVars, editVars, dbSkipped, studyCollections, studySelectedCollectionId,
                    selectedSubCollectionId, cards, currentIndex, skipChecked,
                    loadingCollections, loadingCards, error, getCards, skipCalls >>

\* The Skip checkbox or the space key.
ToggleSkip ==
    /\ OnStudy
    /\ KeysActive
    /\ skipChecked' = ~skipChecked
    /\ lastEvent' = "-"
    /\ UNCHANGED << route, bulkVars, editVars, dbSkipped, studyCollections, studySelectedCollectionId,
                    selectedSubCollectionId, cards, currentIndex, flipped,
                    loadingCollections, loadingCards, error, getCards, skipCalls >>

\* Faulty variant of NextIndex: no wrap at the last card.
NextIndexNoWrap(i, n) == i + 1

\* i >= sessionCards.length - 1 ? 0 : i + 1
NextIndex(i, n) == IF i >= n - 1 THEN 0 ELSE i + 1

\* i <= 0 ? sessionCards.length - 1 : i - 1
PreviousIndex(i, n) == IF i <= 0 THEN n - 1 ELSE i - 1

\* Math.max(0, Math.min(i, sessionCards.length - 2))
SkipIndex(i, n) == Max({0, Min({i, n - 2})})

\* prev.map(c => c.id === id ? { ...c, skipped: true } : c)
MarkSkipped(cs, id) ==
    [k \in DOMAIN cs |-> IF cs[k].id = id THEN [cs[k] EXCEPT !.skipped = TRUE] ELSE cs[k]]

\* Next button or ArrowRight, Skip not checked.
StudyNext ==
    /\ OnStudy
    /\ KeysActive
    /\ ~skipChecked
    /\ flipped' = FALSE
    /\ skipChecked' = FALSE
    /\ currentIndex' = NextIndex(currentIndex, Len(SessionCards))
    /\ lastEvent' = "Next"
    /\ UNCHANGED << route, bulkVars, editVars, dbSkipped, studyCollections, studySelectedCollectionId,
                    selectedSubCollectionId, cards, loadingCollections, loadingCards, error,
                    getCards, skipCalls >>

\* Next button or ArrowRight, Skip checked: handleNext up to
\* await invoke("set_card_skipped"); the call keeps the card and the session
\* length of the render it was made in.
NextSkip ==
    /\ OnStudy
    /\ KeysActive
    /\ skipChecked
    /\ BagCardinality(skipCalls) < MaxSkipCalls
    /\ flipped' = FALSE
    /\ skipChecked' = FALSE
    /\ skipCalls' = skipCalls (+) SetToBag({[card |-> CurrentCard.id,
                                             n |-> Len(SessionCards)]})
    /\ lastEvent' = "NextSkip"
    /\ UNCHANGED << route, bulkVars, editVars, dbSkipped, studyCollections, studySelectedCollectionId,
                    selectedSubCollectionId, cards, currentIndex, loadingCollections,
                    loadingCards, error, getCards >>

\* set_card_skipped resolved.
SkipOk ==
    /\ OnStudy
    /\ \E c \in BagToSet(skipCalls) :
        /\ skipCalls' = skipCalls (-) SetToBag({c})
        /\ dbSkipped' = dbSkipped \cup {c.card}
        /\ cards' = MarkSkipped(cards, c.card)
        /\ currentIndex' = SkipIndex(currentIndex, c.n)
    /\ lastEvent' = "SkipOk"
    /\ UNCHANGED << route, bulkVars, editVars, studyCollections, studySelectedCollectionId,
                    selectedSubCollectionId, flipped, skipChecked, loadingCollections,
                    loadingCards, error, getCards >>

\* set_card_skipped rejected: setError.
SkipFail ==
    /\ OnStudy
    /\ \E c \in BagToSet(skipCalls) :
        skipCalls' = skipCalls (-) SetToBag({c})
    /\ error' = "failed"
    /\ lastEvent' = "SkipFail"
    /\ UNCHANGED << route, bulkVars, editVars, dbSkipped, studyCollections, studySelectedCollectionId,
                    selectedSubCollectionId, cards, currentIndex, flipped, skipChecked,
                    loadingCollections, loadingCards, getCards >>

\* Previous button or ArrowLeft.
StudyPrevious ==
    /\ OnStudy
    /\ KeysActive
    /\ flipped' = FALSE
    /\ skipChecked' = FALSE
    /\ currentIndex' = PreviousIndex(currentIndex, Len(SessionCards))
    /\ lastEvent' = "Previous"
    /\ UNCHANGED << route, bulkVars, editVars, dbSkipped, studyCollections, studySelectedCollectionId,
                    selectedSubCollectionId, cards, loadingCollections, loadingCards, error,
                    getCards, skipCalls >>

\* Restart button.
Restart ==
    /\ OnStudy
    /\ View = "study"
    /\ ~EditOpen
    /\ flipped' = FALSE
    /\ currentIndex' = 0
    /\ skipChecked' = FALSE
    /\ lastEvent' = "Restart"
    /\ UNCHANGED << route, bulkVars, editVars, dbSkipped, studyCollections, studySelectedCollectionId,
                    selectedSubCollectionId, cards, loadingCollections, loadingCards, error,
                    getCards, skipCalls >>

\* Faulty variant of Swap: out[i] = out[j] without the second assignment.
SwapOverwrite(out, i, j) == [out EXCEPT ![i] = out[j]]

\* [out[i], out[j]] = [out[j], out[i]]
Swap(out, i, j) == [out EXCEPT ![i] = out[j], ![j] = out[i]]

\* The loop of shuffle from position i (1-based) down: every j that
\* Math.floor(Math.random() * (i + 1)) can give is followed.
RECURSIVE ShuffleFrom(_, _)
ShuffleFrom(out, i) ==
    IF i < 2 THEN {out}
    ELSE UNION {ShuffleFrom(Swap(out, i, j), i - 1) : j \in 1..i}

\* shuffle(array): the arrays it can return.
Shuffle(array) == ShuffleFrom(array, Len(array))

\* Shuffle button.
HandleShuffle ==
    /\ OnStudy
    /\ View = "study"
    /\ ~EditOpen
    /\ \E out \in Shuffle(cards) : cards' = out
    /\ currentIndex' = 0
    /\ flipped' = FALSE
    /\ skipChecked' = FALSE
    /\ lastEvent' = "Shuffle"
    /\ UNCHANGED << route, bulkVars, editVars, dbSkipped, studyCollections, studySelectedCollectionId,
                    selectedSubCollectionId, loadingCollections, loadingCards, error,
                    getCards, skipCalls >>

----------------------------------------------------------------------------
(* The edit dialog of the Study page *)

\* What the user can type into the Question and the Answer box of the dialog.
EditQuestionTexts == {"", " Q2 "}

EditAnswerTexts == {" ", "A2"}

\* String(card.sub_collection_id)
SubIdString(n) == IF n = 1 THEN "1" ELSE "0"

\* editSubCollectionId && editSubCollectionId !== SUB_COLLECTION_NONE
\*     ? Number(editSubCollectionId) : undefined
EditSubNumber ==
    IF editSubCollectionId # "" /\ editSubCollectionId # SubCollectionNone
    THEN Number(editSubCollectionId)
    ELSE NoSub

\* The pencil button of the card: openEdit(currentCard).
OpenEdit ==
    /\ OnStudy
    /\ View = "study"
    /\ ~EditOpen
    /\ editingCard' = CurrentCard.id
    /\ editSubCollectionId' = IF CurrentCard.sub_collection_id = NoSub
                              THEN SubCollectionNone
                              ELSE SubIdString(CurrentCard.sub_collection_id)
    /\ editQuestion' = CurrentCard.question
    /\ editAnswer' = CurrentCard.answer
    /\ modalError' = ""
    /\ lastEvent' = "-"
    /\ UNCHANGED << route, bulkVars, dbSkipped, studyVars, dbCards, editSaveAction, saving,
                    saveEdit, editsLeft >>

\* closeEdit()
CloseEditFields ==
    /\ editingCard' = 0
    /\ editSubCollectionId' = SubCollectionNone
    /\ editQuestion' = ""
    /\ editAnswer' = ""
    /\ editSaveAction' = "overwrite"
    /\ modalError' = ""

\* Cancel, Escape or a click outside the dialog, also while a save is in flight.
CloseEdit ==
    /\ OnStudy
    /\ EditOpen
    /\ CloseEditFields
    /\ lastEvent' = "-"
    /\ UNCHANGED << route, bulkVars, dbSkipped, studyVars, dbCards, saving, saveEdit,
                    editsLeft >>

\* The Question box of the dialog.
SetEditQuestion(t) ==
    /\ OnStudy
    /\ EditOpen
    /\ t # editQuestion
    /\ editQuestion' = t
    /\ lastEvent' = "-"
    /\ UNCHANGED << route, bulkVars, dbSkipped, studyVars, dbCards, editingCard,
                    editSubCollectionId, editAnswer, editSaveAction, saving, modalError,
                    saveEdit, editsLeft >>

\* The Answer box of the dialog.
SetEditAnswer(t) ==
    /\ OnStudy
    /\ EditOpen
    /\ t # editAnswer
    /\ editAnswer' = t
    /\ lastEvent' = "-"
    /\ UNCHANGED << route, bulkVars, dbSkipped, studyVars, dbCards, editingCard,
                    editSubCollectionId, editQuestion, editSaveAction, saving, modalError,
                    saveEdit, editsLeft >>

\* The button "Flip Q and A".
FlipQA ==
    /\ OnStudy
    /\ EditOpen
    /\ editQuestion # editAnswer
    /\ editQuestion' = editAnswer
    /\ editAnswer' = editQuestion
    /\ lastEvent' = "-"
    /\ UNCHANGED << route, bulkVars, dbSkipped, studyVars, dbCards, editingCard,
                    editSubCollectionId, editSaveAction, saving, modalError, saveEdit,
                    editsLeft >>

\* The Sub Collection select of the dialog: None or sub-collection 1.
SetEditSubCollectionId(sub) ==
    /\ OnStudy
    /\ EditOpen
    /\ studySelectedCollectionId # 0
    /\ sub # editSubCollectionId
    /\ editSubCollectionId' = sub
    /\ lastEvent' = "-"
    /\ UNCHANGED << route, bulkVars, dbSkipped, studyVars, dbCards, editingCard,
                    editQuestion, editAnswer, editSaveAction, saving, modalError, saveEdit,
                    editsLeft >>

\* The buttons "Overwrite Existing" and "Make New Card".
SetEditSaveAction(a) ==
    /\ OnStudy
    /\ EditOpen
    /\ a # editSaveAction
    /\ editSaveAction' = a
    /\ lastEvent' = "-"
    /\ UNCHANGED << route, bulkVars, dbSkipped, studyVars, dbCards, editingCard,
                    editSubCollectionId, editQuestion, editAnswer, saving, modalError,
                    saveEdit, editsLeft >>

\* The arguments of the add_card call of "Make New Card".
CopyRequest(q, a) ==
    [pc |-> "add_card", id |-> 0, question |-> a, answer |-> q,
     collectionId |-> studySelectedCollectionId, subCollectionId |-> EditSubNumber]

\* The arguments of the update_card call of "Overwrite Existing".
OverwriteRequest(q, a) ==
    [pc |-> "update_card", id |-> editingCard, question |-> q, answer |-> a,
     collectionId |-> studySelectedCollectionId, subCollectionId |-> EditSubNumber]

\* Save button of the dialog: handleSaveEdit up to its first await.  The
\* button is disabled while a text is blank or a save is in flight.
HandleSaveEdit ==
    /\ OnStudy
    /\ EditOpen
    /\ ~saving
    /\ editsLeft > 0
    /\ Trim(editQuestion) # ""
    /\ Trim(editAnswer) # ""
    /\ modalError' = ""
    /\ saving' = TRUE
    /\ saveEdit' = IF editSaveAction = "copy"
                   THEN CopyRequest(Trim(editQuestion), Trim(editAnswer))
                   ELSE OverwriteRequest(Trim(editQuestion), Trim(editAnswer))
    /\ editsLeft' = editsLeft - 1
    /\ lastEvent' = "HandleSaveEdit"
    /\ UNCHANGED << route, bulkVars, dbSkipped, studyVars, dbCards, editingCard,
                    editSubCollectionId, editQuestion, editAnswer, editSaveAction >>

\* The backend's add_card: a new card, not skipped, with the next id.
DbAdd(db, call) ==
    IF call.collectionId = 1
    THEN Append(db, [id |-> Len(db) + 1, question |-> call.question,
                     answer |-> call.answer,
                     sub_collection_id |-> call.subCollectionId])
    ELSE db

\* The backend's update_card.
DbUpdate(db, call) ==
    [k \in DOMAIN db |->
        IF db[k].id = call.id
        THEN [db[k] EXCEPT !.question = call.question, !.answer = call.answer,
                           !.sub_collection_id = call.subCollectionId]
        ELSE db[k]]

\* What the call in flight stores when the backend runs it.
DbAfter(db, call) ==
    IF call.pc = "add_card" THEN DbAdd(db, call)
    ELSE IF call.pc = "update_card" THEN DbUpdate(db, call)
    ELSE db

\* add_card resolved: handleSaveEdit goes on to await get_cards for the
\* collection of the render it was called in.
AddCardOk ==
    /\ OnStudy
    /\ saveEdit.pc = "add_card"
    /\ dbCards' = DbAdd(dbCards, saveEdit)
    /\ saveEdit' = [saveEdit EXCEPT !.pc = "get_cards"]
    /\ lastEvent' = "-"
    /\ UNCHANGED << route, bulkVars, dbSkipped, studyVars, editingCard,
                    editSubCollectionId, editQuestion, editAnswer, editSaveAction, saving,
                    modalError, editsLeft >>

\* get_cards of handleSaveEdit resolved: setCards(data), closeEdit(),
\* setSaving(false).
GetCardsAfterAddOk ==
    /\ OnStudy
    /\ saveEdit.pc = "get_cards"
    /\ cards' = DbCards(saveEdit.collectionId)
    /\ CloseEditFields
    /\ saving' = FALSE
    /\ saveEdit' = NoSaveEdit
    /\ lastEvent' = "GetCardsAfterAddOk"
    /\ UNCHANGED << route, bulkVars, dbSkipped, dbCards, editsLeft, studyCollections,
                    studySelectedCollectionId, selectedSubCollectionId, currentIndex,
                    flipped, skipChecked, loadingCollections, loadingCards, error,
                    getCards, skipCalls >>

\* prev.map(c => c.id === editingCard.id ? { ...c, question: q, answer: a,
\*                                           sub_collection_id: newSubId } : c)
ApplyEdit(cs, call) ==
    [k \in DOMAIN cs |->
        IF cs[k].id = call.id
        THEN [cs[k] EXCEPT !.question = call.question, !.answer = call.answer,
                           !.sub_collection_id = call.subCollectionId]
        ELSE cs[k]]

\* update_card resolved: the card is patched in cards, closeEdit(),
\* setSaving(false).
UpdateCardOk ==
    /\ OnStudy
    /\ saveEdit.pc = "update_card"
    /\ dbCards' = DbUpdate(dbCards, saveEdit)
    /\ cards' = ApplyEdit(cards, saveEdit)
    /\ CloseEditFields
    /\ saving' = FALSE
    /\ saveEdit' = NoSaveEdit
    /\ lastEvent' = "UpdateCardOk"
    /\ UNCHANGED << route, bulkVars, dbSkipped, editsLeft, studyCollections,
                    studySelectedCollectionId, selectedSubCollectionId, currentIndex,
                    flipped, skipChecked, loadingCollections, loadingCards, error,
                    getCards, skipCalls >>

\* add_card, get_cards or update_card rejected: setModalError,
\* setSaving(false); the dialog stays as it is.
SaveEditFail ==
    /\ OnStudy
    /\ saveEdit.pc # "none"
    /\ modalError' = "failed"
    /\ saving' = FALSE
    /\ saveEdit' = NoSaveEdit
    /\ lastEvent' = "-"
    /\ UNCHANGED << route, bulkVars, dbSkipped, studyVars, dbCards, editingCard,
                    editSubCollectionId, editQuestion, editAnswer, editSaveAction,
                    editsLeft >>

----------------------------------------------------------------------------
(* Navigation: the tabs of AppLayout *)

\* What set_card_skipped calls in flight can still store when Study unmounts.
PendingSkips == {c.card : c \in BagToSet(skipCalls)}

\* A <Link> of the header is clicked: the page of the old route unmounts and
\* loses its state, the results of its calls in flight are dropped, and the
\* page of the new route mounts.  sessionActive belongs to the provider and
\* survives.
Navigate(r) ==
    /\ r \in Routes
    /\ r # route
    /\ route' = r
    /\ IF OnBulkCreate
       THEN /\ bulkFileFormat' = "png"
            /\ ocrProcessing' = FALSE
            /\ ocrQueue' = << >>
            /\ previewIndex' = 0
            /\ llmEnabled' = TRUE
            /\ autorunEnabled' = TRUE
            /\ ollamaHost' = "local"
            /\ llmStartedRef' = {}
            /\ knownPathsRef' = {}
            /\ scan' = NoScan
            /\ polls' = [k \in PollSlots |-> NoPoll]
            /\ llmCalls' = EmptyBag
            /\ savePending' = EmptyBag
            /\ removedPaths' = {}
            /\ pollClaimed' = {}
            /\ collections' = << >>
            /\ selectedCollectionId' = 0
            /\ subCollections' = << >>
            /\ bulkSelectedSubCollectionId' = 0
            /\ newSubCollectionOpen' = FALSE
            /\ newSubCollectionName' = ""
            /\ creatingSubCollection' = FALSE
            /\ getSubCollections' = 0
            /\ createSub' = NoCreateSub
            /\ dbSubCollections' \in {dbSubCollections, DbCreate(dbSubCollections, createSub)}
            /\ UNCHANGED << dbSkipped, studyVars, editVars >>
       ELSE /\ studyCollections' = << >>
            /\ studySelectedCollectionId' = 0
            /\ selectedSubCollectionId' = SubCollectionAll
            /\ cards' = << >>
            /\ currentIndex' = 0
            /\ flipped' = FALSE
            /\ skipChecked' = FALSE
            /\ loadingCollections' = TRUE
            /\ loadingCards' = FALSE
            /\ error' = ""
            /\ getCards' = 0
            /\ skipCalls' = EmptyBag
            /\ \E S \in SUBSET PendingSkips : dbSkipped' = dbSkipped \cup S
            /\ CloseEditFields
            /\ saving' = FALSE
            /\ saveEdit' = NoSaveEdit
            /\ dbCards' \in {dbCards, DbAfter(dbCards, saveEdit)}
            /\ UNCHANGED editsLeft
            /\ UNCHANGED << bulkFileFormat, ocrProcessing, ocrQueue, previewIndex,
                            llmEnabled, autorunEnabled, ollamaHost, llmStartedRef,
                            knownPathsRef, scan, polls, llmCalls, savePending,
                            removedPaths, pollClaimed, collections, subVars >>
    /\ lastEvent' = "Navigate"
    /\ UNCHANGED << numFiles, sessionActive, sessionsLeft >>

----------------------------------------------------------------------------

\* The steps of the Study page.
NextStudy ==
    \/ StudyCollectionsLoaded
    \/ StudyCollectionsFail
    \/ GetCardsOk
    \/ GetCardsFail
    \/ \E c \in Range(DbCollections) : SelectCollection(c)
    \/ \E sub \in SubChoices : SelectSubCollection(sub)
    \/ Flip
    \/ ToggleSkip
    \/ StudyNext
    \/ NextSkip
    \/ SkipOk
    \/ SkipFail
    \/ StudyPrevious
    \/ Restart
    \/ HandleShuffle

\* The steps of the edit dialog of the Study page.
EditSteps ==
    \/ OpenEdit
    \/ CloseEdit
    \/ \E t \in EditQuestionTexts : SetEditQuestion(t)
    \/ \E t \in EditAnswerTexts : SetEditAnswer(t)
    \/ FlipQA
    \/ \E sub \in {SubCollectionNone, "1"} : SetEditSubCollectionId(sub)
    \/ \E a \in {"overwrite", "copy"} : SetEditSaveAction(a)
    \/ HandleSaveEdit
    \/ AddCardOk
    \/ GetCardsAfterAddOk
    \/ UpdateCardOk
    \/ SaveEditFail

Next ==
    \/ AddFile
    \/ ChangeFormat
    \/ ToggleLlm
    \/ ToggleAutorun
    \/ SetHost
    \/ StartSession
    \/ ScanListed
    \/ ScanAbort
    \/ ScanWorker
    \/ ScanOcr
    \/ ScanFinish
    \/ PollTick
    \/ \E k \in PollSlots : PollListed(k)
    \/ \E k \in PollSlots : PollFail(k)
    \/ \E k \in PollSlots : PollWorker(k)
    \/ \E k \in PollSlots : PollOcr(k)
    \/ StopSession
    \/ EditText
    \/ Skip
    \/ CollectionsLoaded
    \/ SaveStart
    \/ SaveReject
    \/ SaveOk
    \/ SaveFail
    \/ RunLlm
    \/ LlmResolve
    \/ \E r \in Routes : Navigate(r)
    \/ NextStudy
    \/ EditSteps
    \/ SubSteps

Spec == Init /\ [][Next]_vars

\* The steps every slice of the model contains: the directory, the session,
\* the initial scan, polling, Skip, and the settling of the LLM calls that
\* the default settings (LLM on, autorun on, local host) start.
Core ==
    \/ AddFile
    \/ StartSession
    \/ ScanListed
    \/ ScanAbort
    \/ ScanWorker
    \/ ScanOcr
    \/ ScanFinish
    \/ PollTick
    \/ \E k \in PollSlots : PollListed(k)
    \/ \E k \in PollSlots : PollFail(k)
    \/ \E k \in PollSlots : PollWorker(k)
    \/ \E k \in PollSlots : PollOcr(k)
    \/ StopSession
    \/ Skip
    \/ LlmResolve

\* The queue slice: sessions can be stopped and started again, the LLM
\* settings stay at their defaults; Save and the format select are added.
NextQueue ==
    \/ Core
    \/ ChangeFormat
    \/ SaveStart
    \/ SaveOk
    \/ SaveFail

\* The queue slice starts when get_collections has resolved.
InitQueue ==
    /\ numFiles = 0
    /\ bulkFileFormat = "png"
    /\ sessionActive = FALSE
    /\ ocrProcessing = FALSE
    /\ ocrQueue = << >>
    /\ previewIndex = 0
    /\ llmEnabled = TRUE
    /\ autorunEnabled = TRUE
    /\ ollamaHost = "local"
    /\ llmStartedRef = {}
    /\ knownPathsRef = {}
    /\ scan = NoScan
    /\ polls = [k \in 1..MaxPolls |-> NoPoll]
    /\ llmCalls = EmptyBag
    /\ savePending = EmptyBag
    /\ sessionsLeft = MaxSessions
    /\ lastEvent = "-"
    /\ removedPaths = {}
    /\ pollClaimed = {}
    /\ collections = DbCollections
    /\ dbSubCollections = InitialSubCollections
    /\ BulkSelectionLoaded
    /\ route = "/bulk-create"
    /\ dbSkipped = {}
    /\ dbCards = InitialCards
    /\ editsLeft = MaxEdits
    /\ StudyUnmounted

SpecQueue == InitQueue /\ [][NextQueue]_vars

\* The save slice follows the initial scan of one session from the mount of
\* the page: get_collections may resolve at any time, or never.
NextSave ==
    \/ AddFile
    \/ CollectionsLoaded
    \/ StartSession
    \/ ScanListed
    \/ ScanAbort
    \/ ScanWorker
    \/ ScanOcr
    \/ ScanFinish
    \/ LlmResolve
    \/ Skip
    \/ SaveStart
    \/ SaveReject
    \/ SaveOk
    \/ SaveFail

SpecSave == Init /\ [][NextSave]_vars

\* The sub-collection slice follows the initial scan of one session from the
\* mount of the page, with the Collection and Sub Collection selects, the
\* "New sub collection" dialog and Save.
NextSub ==
    \/ AddFile
    \/ CollectionsLoaded
    \/ StartSession
    \/ ScanListed
    \/ ScanWorker
    \/ ScanOcr
    \/ ScanFinish
    \/ LlmResolve
    \/ SaveStart
    \/ SaveOk
    \/ SaveFail
    \/ SubSteps

SpecSub == Init /\ [][NextSub]_vars

\* The LLM slice follows one session: the format stays "png" and items leave
\* the queue by Skip (SaveOk changes the queue exactly as Skip does); the LLM
\* settings, the text box and Run LLM are added.
InitLlm ==
    /\ numFiles = 0
    /\ bulkFileFormat = "png"
    /\ sessionActive = FALSE
    /\ ocrProcessing = FALSE
    /\ ocrQueue = << >>
    /\ previewIndex = 0
    /\ llmEnabled = TRUE
    /\ autorunEnabled = TRUE
    /\ ollamaHost = "local"
    /\ llmStartedRef = {}
    /\ knownPathsRef = {}
    /\ scan = NoScan
    /\ polls = [k \in 1..MaxPolls |-> NoPoll]
    /\ llmCalls = EmptyBag
    /\ savePending = EmptyBag
    /\ sessionsLeft = MaxSessionsLlm
    /\ lastEvent = "-"
    /\ removedPaths = {}
    /\ pollClaimed = {}
    /\ collections = << >>
    /\ dbSubCollections = InitialSubCollections
    /\ BulkSelectionUnmounted
    /\ route = "/bulk-create"
    /\ dbSkipped = {}
    /\ dbCards = InitialCards
    /\ editsLeft = MaxEdits
    /\ StudyUnmounted

NextLlm ==
    \/ Core
    \/ ToggleLlm
    \/ ToggleAutorun
    \/ SetHost
    \/ EditText
    \/ RunLlm

SpecLlm == InitLlm /\ [][NextLlm]_vars

\* The Study slice: the Study page from its mount, nothing else.
InitStudy ==
    /\ numFiles = 0
    /\ bulkFileFormat = "png"
    /\ sessionActive = FALSE
    /\ ocrProcessing = FALSE
    /\ ocrQueue = << >>
    /\ previewIndex = 0
    /\ llmEnabled = TRUE
    /\ autorunEnabled = TRUE
    /\ ollamaHost = "local"
    /\ llmStartedRef = {}
    /\ knownPathsRef = {}
    /\ scan = NoScan
    /\ polls = [k \in 1..MaxPolls |-> NoPoll]
    /\ llmCalls = EmptyBag
    /\ savePending = EmptyBag
    /\ sessionsLeft = MaxSessions
    /\ lastEvent = "-"
    /\ removedPaths = {}
    /\ pollClaimed = {}
    /\ collections = << >>
    /\ dbSubCollections = InitialSubCollections
    /\ BulkSelectionUnmounted
    /\ route = "/study"
    /\ dbSkipped = {}
    /\ dbCards = InitialCards
    /\ editsLeft = MaxEdits
    /\ StudyUnmounted

SpecStudy == InitStudy /\ [][NextStudy]_vars

\* The edit slice follows the Study page with its edit dialog: the cards are
\* loaded, filtered and walked through, and one of them is edited.
NextEdit ==
    \/ StudyCollectionsLoaded
    \/ GetCardsOk
    \/ \E c \in Range(DbCollections) : SelectCollection(c)
    \/ \E sub \in SubChoices : SelectSubCollection(sub)
    \/ StudyNext
    \/ EditSteps

SpecEdit == InitStudy /\ [][NextEdit]_vars

\* The order slice follows one session in which a second poll() call can
\* start while the first is still running; nothing is saved or skipped.
InitOrder ==
    /\ numFiles = 0
    /\ bulkFileFormat = "png"
    /\ sessionActive = FALSE
    /\ ocrProcessing = FALSE
    /\ ocrQueue = << >>
    /\ previewIndex = 0
    /\ llmEnabled = TRUE
    /\ autorunEnabled = TRUE
    /\ ollamaHost = "local"
    /\ llmStartedRef = {}
    /\ knownPathsRef = {}
    /\ scan = NoScan
    /\ polls = [k \in 1..MaxPollsOrder |-> NoPoll]
    /\ llmCalls = EmptyBag
    /\ savePending = EmptyBag
    /\ sessionsLeft = MaxSessionsLlm
    /\ lastEvent = "-"
    /\ removedPaths = {}
    /\ pollClaimed = {}
    /\ collections = << >>
    /\ dbSubCollections = InitialSubCollections
    /\ BulkSelectionUnmounted
    /\ route = "/bulk-create"
    /\ dbSkipped = {}
    /\ dbCards = InitialCards
    /\ editsLeft = MaxEdits
    /\ StudyUnmounted

NextOrder ==
    \/ AddFile
    \/ StartSession
    \/ ScanListed
    \/ ScanAbort
    \/ ScanWorker
    \/ ScanOcr
    \/ ScanFinish
    \/ PollTick
    \/ \E k \in PollSlots : PollListed(k)
    \/ \E k \in PollSlots : PollFail(k)
    \/ \E k \in PollSlots : PollWorker(k)
    \/ \E k \in PollSlots : PollOcr(k)
    \/ LlmResolve

SpecOrder == InitOrder /\ [][NextOrder]_vars

\* The navigation slice: the session steps and the tabs of the header.
NextNav ==
    \/ Core
    \/ \E r \in Routes : Navigate(r)

SpecNav == Init /\ [][NextNav]_vars

----------------------------------------------------------------------------
(* Helpers of the properties *)

\* The position in ocrQueue of the item that stands at position j of
\* ocrQueue' after a step, 0 when that item is new.  A step keeps the queue's
\* length, appends one item, removes the item at previewIndex, or empties
\* the queue.
Pre(j) ==
    IF Len(ocrQueue') = Len(ocrQueue) THEN j
    ELSE IF Len(ocrQueue') = Len(ocrQueue) + 1 THEN (IF j <= Len(ocrQueue) THEN j ELSE 0)
    ELSE IF Len(ocrQueue') = Len(ocrQueue) - 1 THEN (IF j < previewIndex + 1 THEN j ELSE j + 1)
    ELSE 0

RunningPaths(q) == {q[i].path : i \in {j \in DOMAIN q : q[j].llmStatus = "running"}}

\* Some call or OCR that was in flight when stopSession ran settles in this step.
StaleSettles ==
    \/ \E k \in PollSlots :
        polls[k].stale /\ polls[k].pc = "ocr" /\ polls'[k].pc # "ocr"
    \/ \E c \in BagToSet(llmCalls) :
        c.stale /\ CopiesIn(c, llmCalls') < CopiesIn(c, llmCalls)

----------------------------------------------------------------------------
(* C1 *)

\* C1 (as stated): every accept (Save) call and every Skip call decreases the
\* queue length by exactly one, and afterwards the current index lies within
\* [0, length-1] or the queue is empty.
C1_EachCallRemovesOne ==
    [][lastEvent' \in {"Skip", "SaveOk", "SaveFail"} =>
          /\ Len(ocrQueue') = Len(ocrQueue) - 1
          /\ (Len(ocrQueue') = 0 \/ previewIndex' \in 0..(Len(ocrQueue') - 1))]_vars

\* C1 (amended): every Skip call decreases the queue length by exactly one; a
\* Save call decreases it by exactly one when add_card succeeds and the queue
\* still holds an item at the index Save was pressed on, and leaves the queue
\* as it is when add_card fails or the queue was emptied meanwhile; after
\* each call, and in every state, the current index lies within
\* [0, length-1] or the queue is empty.
C1_CallsRemoveAtMostOne ==
    /\ [](Len(ocrQueue) = 0 \/ previewIndex \in 0..(Len(ocrQueue) - 1))
    /\ [][/\ lastEvent' = "Skip" => Len(ocrQueue') = Len(ocrQueue) - 1
          /\ lastEvent' = "SaveOk" =>
                Len(ocrQueue') = IF Len(ocrQueue) > previewIndex THEN Len(ocrQueue) - 1
                                 ELSE Len(ocrQueue)
          /\ lastEvent' = "SaveFail" => ocrQueue' = ocrQueue]_vars

\* A Save has succeeded and removed the head of a queue of several items.
C1_Witness ==
    lastEvent = "SaveOk" /\ Len(ocrQueue) > 0 /\ removedPaths # {}

----------------------------------------------------------------------------
(* C2 *)

\* C2: no two items of the queue have the same path.
C2_UniquePaths ==
    \A i, j \in DOMAIN ocrQueue : i # j => ocrQueue[i].path # ocrQueue[j].path

----------------------------------------------------------------------------
(* C3 *)

AllowedStatusStep(a, b) ==
    \/ a = b
    \/ a = "idle" /\ b = "running"
    \/ a = "running" /\ b \in {"done", "error"}
    \/ a \in {"done", "error"} /\ b = "idle"
    \* Run LLM resets the item to idle and, in the same commit's effects,
    \* auto-run starts it again.
    \/ a \in {"done", "error"} /\ b = "running" /\ lastEvent' = "RunLlm"

\* C3: the llmStatus of a queue item changes only idle -> running,
\* running -> done, running -> error, and by a manual reset back to idle.
C3_StatusTransitions ==
    [][\A j \in DOMAIN ocrQueue' :
          Pre(j) \in DOMAIN ocrQueue =>
              AllowedStatusStep(ocrQueue[Pre(j)].llmStatus, ocrQueue'[j].llmStatus)]_vars

----------------------------------------------------------------------------
(* C4 *)

\* C4 (as stated): while the host is local with LLM and autorun enabled, at
\* most one queue item is running.
C4_AtMostOneRunningLocal ==
    (ollamaHost = "local" /\ llmEnabled /\ autorunEnabled) => NumRunning(ocrQueue) <= 1

\* C4 (amended): while the host is local, auto-run starts an item only when
\* no item is running, and then only one: a step that ends with the local
\* host never adds a running path unless it leaves at most one.  (Items
\* started under the cloud host keep running after a switch to local.)
C4_LocalStartsOneWhenNoneRuns ==
    [][ollamaHost' = "local" =>
          \/ Cardinality(RunningPaths(ocrQueue')) <= 1
          \/ RunningPaths(ocrQueue') \subseteq RunningPaths(ocrQueue)]_vars

\* Local host, one item running while another idle item with text waits.
C4_Witness ==
    /\ ollamaHost = "local" /\ llmEnabled /\ autorunEnabled
    /\ NumRunning(ocrQueue) = 1
    /\ \E i \in DOMAIN ocrQueue : Eligible(ocrQueue[i], llmStartedRef)

----------------------------------------------------------------------------
(* C5 *)

\* C5: with the cloud host, LLM and autorun enabled, the items with text at
\* the current index and at current index + 1 are both handed to the LLM
\* without waiting for each other (neither is left idle and unstarted), and a
\* step never starts a path that is not at the current index or at current
\* index + 1.
C5_CloudLookAheadOne ==
    /\ []((ollamaHost = "cloud" /\ llmEnabled /\ autorunEnabled) =>
            \A j \in DOMAIN ocrQueue :
                (j \in {previewIndex + 1, previewIndex + 2} /\ Trim(ocrQueue[j].text) # "")
                    => (ocrQueue[j].llmStatus # "idle" \/ ocrQueue[j].path \in llmStartedRef))
    /\ [][ollamaHost' = "cloud" =>
            \A p \in RunningPaths(ocrQueue') \ RunningPaths(ocrQueue) :
                \E j \in DOMAIN ocrQueue' :
                    j <= previewIndex' + 2 /\ ocrQueue'[j].path = p]_vars

\* Cloud host: the items at index 0 and 1 are both running, a third waits idle.
C5_Witness ==
    /\ ollamaHost = "cloud" /\ llmEnabled /\ autorunEnabled
    /\ Len(ocrQueue) >= 3
    /\ ocrQueue[previewIndex + 1].llmStatus = "running"
    /\ ocrQueue[previewIndex + 2].llmStatus = "running"
    /\ Eligible(ocrQueue[previewIndex + 3], llmStartedRef)

----------------------------------------------------------------------------
(* C6 *)

\* C6: a result of an OCR or LLM call that was in flight when stopSession ran
\* is discarded when it arrives: the queue is left exactly as it was.
C6_StaleResultsDiscarded ==
    [][StaleSettles => ocrQueue' = ocrQueue]_vars

----------------------------------------------------------------------------
(* C7 *)

\* C7: stopSession leaves the queue empty, the current index 0, the
\* started-set and the known-paths set empty and the session flag false, and
\* it runs only when no initial scan is running.
C7_StopClearsSession ==
    [][(sessionActive /\ ~sessionActive') =>
          /\ ocrQueue' = << >>
          /\ previewIndex' = 0
          /\ llmStartedRef' = {}
          /\ knownPathsRef' = {}
          /\ ~ocrProcessing /\ scan.pc = "none"]_vars

\* A session with LLM calls in flight has just been stopped.
C7_Witness ==
    lastEvent = "StopSession" /\ ~sessionActive /\ BagCardinality(llmCalls) > 0

----------------------------------------------------------------------------
(* C8 *)

Occurrences(q, p) == Cardinality({i \in DOMAIN q : q[i].path = p})

\* C8: while a session is active, a poll whose listing holds only known paths
\* ends without touching the queue or the known paths, and a path that was
\* saved or skipped in this session is never enqueued again.
C8_KnownPathsNotEnqueuedAgain ==
    [][(sessionActive /\ sessionActive') =>
          /\ \A k \in PollSlots :
                (/\ polls[k].pc = "list" /\ polls'[k].pc # "list"
                 /\ Range(ListFiles(polls[k].fmt)) \subseteq knownPathsRef)
                    => (ocrQueue' = ocrQueue /\ knownPathsRef' = knownPathsRef
                        /\ polls'[k].pc = "none")
          /\ \A p \in removedPaths :
                Occurrences(ocrQueue', p) <= Occurrences(ocrQueue, p)]_vars

----------------------------------------------------------------------------
(* C9 *)

\* Some poll that is still running will append p.
PendingInPoll(p) ==
    \E k \in PollSlots :
        \/ polls[k].pc = "ocr" /\ p = Head(polls[k].paths)
        \/ polls[k].pc \in {"worker", "ocr"} /\ polls[k].active /\ p \in Range(polls[k].paths)

\* C9: every path a poll found new is OCR-processed and appended.  A path the
\* polls marked known is never picked up by a later poll, so the claim needs
\* that such a path is in the queue, has been saved or skipped, or is still
\* to be appended by a running poll.
C9_ClaimedPathsGetProcessed ==
    sessionActive =>
        \A p \in pollClaimed :
            p \in QueuePaths(ocrQueue) \/ p \in removedPaths \/ PendingInPoll(p)

----------------------------------------------------------------------------
(* C10 *)

\* The initial scan ends in this step.
ScanCompletes == scan.pc = "term" /\ scan'.pc = "none"

\* C10 (as stated): when startSession has completed on a listing of n files,
\* the queue holds n items in listing order, each with the OCR text of its
\* file (empty when OCR returned nothing or failed) and llmStatus = idle.
\* Stated for the first session of a run in which nothing was saved or
\* skipped while the scan ran.
C10_QueueAfterStartSession ==
    [][(ScanCompletes /\ removedPaths = {} /\ sessionsLeft = MaxSessions - 1) =>
          /\ Len(ocrQueue') = Len(scan.paths)
          /\ \A i \in DOMAIN ocrQueue' :
                /\ ocrQueue'[i].path = scan.paths[i]
                /\ ocrQueue'[i].text \in {FileText(scan.paths[i]), ""}
                /\ ocrQueue'[i].llmStatus = "idle"]_vars

\* C10 (amended): startSession appends one item per listed file, in listing
\* order, at the tail of the queue, each with the OCR text of its file (empty
\* when OCR returned nothing or failed), and has appended all n when it
\* completes; an item is idle when appended, but auto-run (on by default)
\* starts an item with text at once when it is eligible, so the appended item
\* is idle or already running, and it is running only if LLM and autorun are
\* on and its text is not blank.
C10_ScanAppendsInOrder ==
    [][/\ scan'.i = scan.i + 1 =>
            /\ scan.pc = "ocr"
            /\ Len(ocrQueue') = Len(ocrQueue) + 1
            /\ \A j \in DOMAIN ocrQueue :
                  /\ ocrQueue'[j].path = ocrQueue[j].path
                  /\ ocrQueue'[j].text = ocrQueue[j].text
            /\ LET new == ocrQueue'[Len(ocrQueue')]
                   p   == scan.paths[scan.i + 1]
               IN  /\ new.path = p
                   /\ new.text \in {FileText(p), ""}
                   /\ new.llmStatus \in {"idle", "running"}
                   /\ new.llmStatus = "running" =>
                         (llmEnabled /\ autorunEnabled /\ Trim(new.text) # "")
       /\ ScanCompletes =>
            scan.i = Len(scan.paths)]_vars

\* The scan of three files is about to complete with three items queued, the
\* one of them already handed to the LLM.
C10_Witness ==
    /\ scan.pc = "term" /\ Len(scan.paths) = 3 /\ Len(ocrQueue) = 3
    /\ \A i \in 1..3 : ocrQueue[i].path = scan.paths[i]
    /\ \E i \in 1..3 : ocrQueue[i].llmStatus # "idle"

----------------------------------------------------------------------------
(* C11: acceptCurrent (handleSave) makes no add_card call when the trimmed  *)
(* question or the trimmed answer is empty or when no destination           *)
(* collection id is resolvable: every add_card call in flight carries a     *)
(* non-empty trimmed question, a non-empty trimmed answer and a collection  *)
(* id; and a handleSave call that returns early leaves the queue, the       *)
(* current index and the calls in flight as they were.                      *)
C11_NoCallOnInvalidInput ==
    /\ [](\A s \in BagToSet(savePending) :
            s.question # "" /\ s.answer # "" /\ s.collectionId # NoCollection)
    /\ [][lastEvent' = "SaveReject" =>
            /\ ocrQueue' = ocrQueue
            /\ previewIndex' = previewIndex
            /\ savePending' = savePending]_vars

\* handleSave has returned early with an item under review and no collection
\* loaded, and no add_card call was made.
C11_Witness ==
    /\ lastEvent = "SaveReject"
    /\ collections = << >>
    /\ Len(ocrQueue) > 0
    /\ savePending = EmptyBag

(* C12: when add_card rejects, the step of handleSave that handles the      *)
(* rejection leaves the queue (items, order, content) and the current index *)
(* exactly as they were: the item stays in the queue.                       *)
C12_FailedSaveKeepsQueue ==
    [][lastEvent' = "SaveFail" =>
        /\ ocrQueue' = ocrQueue
        /\ previewIndex' = previewIndex]_vars

\* add_card has rejected and the item is still under review.
C12_Witness ==
    /\ lastEvent = "SaveFail"
    /\ HasCurrent

(* C13: whenever LLM is enabled and the current item has non-empty text and *)
(* is not running, the Run LLM step resets the item and the LLM adapter is  *)
(* invoked again for it, whether autorun is on or off: right after the step *)
(* the item is running, or it waits for another item that is running.       *)
C13_RunLlmInvokesAdapter ==
    [][lastEvent' = "RunLlm" =>
        \/ ocrQueue'[previewIndex' + 1].llmStatus = "running"
        \/ NumRunning(ocrQueue') > 0]_vars

\* A step in which an external call of the bulk pipeline fails outside the
\* per-file try block: add_card rejects, or list_files_in_directory or
\* createWorker rejects in handleCreateCards.
FailureStep ==
    \/ lastEvent' = "SaveFail"
    \/ scan.pc \in {"list", "worker"} /\ scan'.pc = "none" /\ route' = route

\* The step gives some item the error status.  (The page keeps no error
\* message: llmStatus "error" is its only state that reports a failure.)
NewErrorStatus ==
    \E i \in DOMAIN ocrQueue' :
        /\ ocrQueue'[i].llmStatus = "error"
        /\ i \in DOMAIN ocrQueue => ocrQueue[i].llmStatus # "error"

(* C14: every failure of an external call of the bulk pipeline is caught in *)
(* the handler that made the call and converted into user-visible state (an *)
(* error message or a per-item error status): the step in which add_card,   *)
(* list_files_in_directory or createWorker rejects leaves such a state.     *)
C14_FailuresSurfaced ==
    [][FailureStep => NewErrorStatus]_vars

(* C16: while the session flag is true, navigation to every screen other    *)
(* than Bulk Create is blocked: no step taken with sessionActive true       *)
(* changes the route.                                                       *)
C16_NavigationBlockedWhileActive ==
    [][sessionActive => route' = route]_vars

(* C15: in the Study screen, after a failed set_card_skipped or get_cards   *)
(* call the session is not stuck: the view that shows the error still       *)
(* renders the study controls, so the collection select can be reached.     *)
C15_ControlsReachableAfterFailure ==
    lastEvent \in {"SkipFail", "GetCardsFail"} => SelectsRendered

\* currentIndex points into the session, or is 0 when the session is empty.
InSession(i, n) == i >= 0 /\ i <= Max({0, n - 1})

(* C17: after set_card_skipped has succeeded for a skip-on-next, the index  *)
(* max(0, min(i, n-2)) lies within the new, shorter session: an index that  *)
(* pointed into the session before the call resolved points into the        *)
(* session after it (0 when the session has become empty).                  *)
C17_SkipKeepsIndexInSession ==
    [][(lastEvent' = "SkipOk" /\ InSession(currentIndex, Len(SessionCards))) =>
        InSession(currentIndex',
                  Len(SessionCardsOf(cards', selectedSubCollectionId')))]_vars

(* C18: in Study with a session of n > 0 cards and the index i on one of    *)
(* them, next() without skip sets the index to (i + 1) mod n, previous()    *)
(* sets it to (i - 1) mod n, restart() sets it to 0; each of them un-flips  *)
(* the card and leaves the card list (data and order) as it was.            *)
C18_NextPreviousRestart ==
    [][LET n == Len(SessionCards)
           i == currentIndex
       IN  /\ (lastEvent' = "Next" /\ i \in 0..(n - 1)) =>
                currentIndex' = (i + 1) % n
           /\ (lastEvent' = "Previous" /\ i \in 0..(n - 1)) =>
                currentIndex' = (i + n - 1) % n
           /\ lastEvent' = "Restart" => currentIndex' = 0
           /\ lastEvent' \in {"Next", "Previous", "Restart"} =>
                /\ n > 0
                /\ flipped' = FALSE
                /\ cards' = cards]_vars

\* next() has just wrapped from the last card of a session of several cards.
C18_Witness ==
    /\ lastEvent = "Next"
    /\ currentIndex = 0
    /\ Len(SessionCards) >= 2

\* Card c satisfies the sub-collection filter.
MatchesFilter(c) ==
    \/ selectedSubCollectionId = SubCollectionAll
    \/ c.sub_collection_id # NoSub /\ c.sub_collection_id = Number(selectedSubCollectionId)

(* C19: filteredCards holds exactly the loaded cards that satisfy the       *)
(* sub-collection filter, skipped ones included, each once; sessionCards    *)
(* holds exactly the cards of filteredCards that are not skipped; and the   *)
(* reported skipped count, |filteredCards| - |sessionCards|, is the number  *)
(* of skipped cards in filteredCards.                                       *)
C19_FilteredAndSessionCards ==
    /\ \A k \in DOMAIN cards :
            MatchesFilter(cards[k]) <=> cards[k] \in Range(FilteredCards)
    /\ Range(FilteredCards) \subseteq Range(cards)
    /\ Len(FilteredCards) = Cardinality({k \in DOMAIN cards : MatchesFilter(cards[k])})
    /\ Range(SessionCards) = {c \in Range(FilteredCards) : ~c.skipped}
    /\ Len(SessionCards) = Cardinality({j \in DOMAIN FilteredCards : ~FilteredCards[j].skipped})
    /\ SkippedCount = Len(FilteredCards) - Len(SessionCards)
    /\ SkippedCount = Cardinality({j \in DOMAIN FilteredCards : FilteredCards[j].skipped})

\* The study view with a sub-collection selected that leaves a loaded card
\* out, and a skipped card within the filter.
C19_Witness ==
    /\ View = "study"
    /\ selectedSubCollectionId # SubCollectionAll
    /\ Len(FilteredCards) < Len(cards)
    /\ SkippedCount > 0

\* The multiset of the cards of a list.
CardBag(cs) == [c \in Range(cs) |-> Cardinality({k \in DOMAIN cs : cs[k] = c})]

(* C20: shuffle() replaces the card list by a permutation of itself: the    *)
(* multiset of cards (ids and data) is the same before and after; it also   *)
(* sets the index to 0 and un-flips.                                        *)
C20_ShuffleIsPermutation ==
    [][lastEvent' = "Shuffle" =>
        /\ CardBag(cards') = CardBag(cards)
        /\ Len(cards') = Len(cards)
        /\ {cards'[k].id : k \in DOMAIN cards'} = {cards[k].id : k \in DOMAIN cards}
        /\ currentIndex' = 0
        /\ flipped' = FALSE]_vars

\* A shuffle has just moved a card of a full list away from its place.
C20_Witness ==
    /\ lastEvent = "Shuffle"
    /\ Len(cards) = NumCards
    /\ \E k \in DOMAIN cards : cards[k].id # k

\* The paths of a queue, in queue order.
PathsOf(q) == [i \in DOMAIN q |-> q[i].path]

(* C27: previewIndex is 0 in every reachable state of BulkCreate, and every *)
(* Skip and every successful Save takes the head of the queue away (or      *)
(* nothing, when the queue is empty): items leave in queue order.           *)
C27_IndexZeroHeadFirst ==
    /\ [](previewIndex = 0)
    /\ [][lastEvent' \in {"Skip", "SaveOk"} =>
            PathsOf(ocrQueue') = IF Len(ocrQueue) = 0 THEN << >>
                                 ELSE Tail(PathsOf(ocrQueue))]_vars

\* A successful Save has taken the head away and left several items, the
\* index still on the head.
C27_Witness ==
    /\ lastEvent = "SaveOk"
    /\ Len(ocrQueue) >= 2
    /\ previewIndex = 0

(* C26: each successful add_card removes from the queue exactly the item    *)
(* that was current when Save was pressed, also when Skip, Save or Stop was *)
(* pressed while the call was pending: a SaveOk step that removes an item   *)
(* removes the item of the call that resolved.                              *)
C26_SaveRemovesSavedItem ==
    [][(lastEvent' = "SaveOk" /\ Len(ocrQueue') < Len(ocrQueue)) =>
        \E s \in BagToSet(savePending) :
            /\ savePending' = savePending (-) SetToBag({s})
            /\ ocrQueue[s.index + 1].path = s.path]_vars

\* The number of LLM calls in flight that the current session started under
\* the local host.
LocalCallsInFlight ==
    BagCardinality([c \in {x \in BagToSet(llmCalls) : x.host = "local" /\ ~x.stale} |->
                        CopiesIn(c, llmCalls)])

(* C22: at any instant at most one LLM call started under the local host is *)
(* unresolved, also when the item whose call is in flight has meanwhile     *)
(* been saved or skipped.                                                   *)
C22_OneLocalCallInFlight ==
    LocalCallsInFlight <= 1

\* The number of LLM calls in flight for path p.
CallsFor(B, p) ==
    BagCardinality([c \in {x \in BagToSet(B) : x.path = p} |-> CopiesIn(c, B)])

(* C23: between an item's creation or last manual reset and the next manual *)
(* reset the LLM adapter is invoked at most once for the item's path: a     *)
(* step starts at most one call for a path, only for a path that is not in  *)
(* the started-set (or that the same step's Run LLM has just taken out of   *)
(* it), and leaves the path in the set; and a path leaves the set only by   *)
(* Run LLM on its item, by Stop or when the page unmounts.                  *)
C23_StartedAtMostOnce ==
    [][\A p \in Paths :
        /\ CallsFor(llmCalls', p) > CallsFor(llmCalls, p) =>
                /\ CallsFor(llmCalls', p) = CallsFor(llmCalls, p) + 1
                /\ \/ p \notin llmStartedRef
                   \/ lastEvent' = "RunLlm" /\ CurrentItem.path = p
                /\ p \in llmStartedRef'
        /\ (p \in llmStartedRef /\ p \notin llmStartedRef') =>
                \/ lastEvent' = "RunLlm" /\ CurrentItem.path = p
                \/ lastEvent' \in {"StopSession", "Navigate"}]_vars

\* An item whose call has completed stays done, with its path in the
\* started-set, after the host was switched and other items were started.
C23_Witness ==
    /\ ollamaHost = "cloud"
    /\ \E i \in DOMAIN ocrQueue :
        /\ ocrQueue[i].llmStatus = "done"
        /\ ocrQueue[i].path \in llmStartedRef
    /\ \E i \in DOMAIN ocrQueue : ocrQueue[i].llmStatus = "running"

(* C24: the queue order is the discovery order.  The files of the directory *)
(* are numbered in the order in which they appear and every listing returns *)
(* them in that order, so the scan and each poll discover paths in          *)
(* increasing order and a later poll discovers larger paths than an earlier *)
(* one: in a session where nothing is removed the paths of the queue are    *)
(* increasing, also when a poll's OCR batch is still running when the next  *)
(* poll starts.                                                             *)
C24_QueueInDiscoveryOrder ==
    \A i \in DOMAIN ocrQueue : \A j \in DOMAIN ocrQueue :
        i < j => ocrQueue[i].path < ocrQueue[j].path

\* C28: in Study, whenever the session (the filtered, non-skipped cards) is
\* not empty, currentIndex is one of its positions, 0 .. sessionCards.length - 1.
C28_IndexWithinSession ==
    Len(SessionCards) > 0 => currentIndex \in 0..(Len(SessionCards) - 1)

\* C29: saving an edit with "Make New Card" sends an add_card request whose
\* question is the trimmed edited question and whose answer is the trimmed
\* edited answer, as "Overwrite Existing" does with update_card, and storing
\* the new card changes none of the cards stored before.
C29_CopyKeepsOrientation ==
    [][/\ (lastEvent' = "HandleSaveEdit" /\ editSaveAction = "copy") =>
            /\ saveEdit'.pc = "add_card"
            /\ saveEdit'.question = Trim(editQuestion)
            /\ saveEdit'.answer = Trim(editAnswer)
       /\ (saveEdit.pc = "add_card" /\ saveEdit'.pc = "get_cards") =>
            \A k \in DOMAIN dbCards : dbCards'[k] = dbCards[k]]_vars

\* The ids of the cards in a sequence of cards.
IdsOf(cs) == {cs[k].id : k \in DOMAIN cs}

\* C30: in Study, once loading has finished without an error, the cards in
\* state are cards of the currently selected collection: no get_cards
\* response for a collection selected before overwrites them.
C30_CardsOfSelectedCollection ==
    (/\ OnStudy
     /\ ~loadingCollections
     /\ ~loadingCards
     /\ error = ""
     /\ studySelectedCollectionId # 0)
        => IdsOf(cards) \subseteq IdsOf(DbCards(studySelectedCollectionId))

\* The content is a JSON object with a string question and a string answer.
IsFlashcardObject(content) ==
    LET parsed == JsonParse(content)
    IN  /\ ~parsed.threw
        /\ ~parsed.isNull
        /\ parsed.type = "object"
        /\ DOMAIN parsed.props = {"question", "answer"}
        /\ parsed.props.question.type = "string"
        /\ parsed.props.answer.type = "string"

\* The item as the auto-run effect leaves it: untouched, or started.
SameOrStarted(old, new) ==
    new = old \/ (old.llmStatus = "idle" /\ new = [old EXCEPT !.llmStatus = "running"])

\* A result was stored in the item: its status or its response changed, and
\* the status is now done or error.
ResultStored(old, new) ==
    /\ new.llmStatus \in {"done", "error"}
    /\ new.llmStatus # old.llmStatus \/ new.llmResponse # old.llmResponse

\* C25: when an LLM call for an item returns, the item gets llmStatus done,
\* llmResponse the returned content, and llmQuestion / llmAnswer the fields
\* of the content if it is a JSON object with string question and answer,
\* two empty strings for any other content; when the call throws, the item
\* gets llmStatus error and llmResponse the error text; no other queue item
\* is changed (the auto-run effect may start one).
C25_LlmResultStored ==
    [][PathsOf(ocrQueue') = PathsOf(ocrQueue) =>
        \A k \in DOMAIN ocrQueue :
            LET old == ocrQueue[k]
                new == ocrQueue'[k]
            IN  ResultStored(old, new) =>
                    /\ new.text = old.text
                    /\ new.llmStatus = "done" =>
                        \E c \in BagToSet(llmCalls) :
                            LET content == LlmReply(c.path, c.host)
                            IN  /\ c.path = old.path
                                /\ new.llmResponse = content
                                /\ IF IsFlashcardObject(content)
                                   THEN /\ new.llmQuestion = JsonParse(content).props.question.value
                                        /\ new.llmAnswer = JsonParse(content).props.answer.value
                                   ELSE /\ new.llmQuestion = ""
                                        /\ new.llmAnswer = ""
                    /\ new.llmStatus = "error" =>
                        /\ new.llmResponse = ErrorText
                        /\ new.llmQuestion = old.llmQuestion
                        /\ new.llmAnswer = old.llmAnswer
                    /\ \A j \in DOMAIN ocrQueue \ {k} :
                        SameOrStarted(ocrQueue[j], ocrQueue'[j])]_vars

\* The stored sub-collection id belongs to collection coll.
SubBelongsTo(id, coll) ==
    \E k \in DOMAIN dbSubCollections :
        /\ dbSubCollections[k].id = id
        /\ dbSubCollections[k].collection_id = coll

\* C21: every add_card request of the Bulk Create page carries a
\* subCollectionId that is absent or the id of a sub-collection of the
\* collectionId of the same request, however the changes of the selected
\* collection interleave with the get_sub_collections and
\* create_sub_collection responses.
C21_SubCollectionOfSameCollection ==
    \A s \in BagToSet(savePending) :
        s.subCollectionId = 0 \/ SubBelongsTo(s.subCollectionId, s.collectionId)

====
